---- MODULE Spec2Model ----
(***************************************************************************)
(* Claim-based authorization of the Xcert asset ledger (XcertToken):       *)
(* setApprovalForAllWithSignature / cancelSetApprovalForAllWithSignature,  *)
(* the claim digest, signature recovery and the claimPerformed /           *)
(* claimCancelled lifecycle.                                               *)
(*                                                                         *)
(* A transaction is one indivisible step.  Every handler is an operator    *)
(* from (contract state, msg.sender, arguments) to a record                *)
(*   [result, st, events]                                                  *)
(* A revert gives back the state the call started from and no events.      *)
(***************************************************************************)
EXTENDS Integers, FiniteSets, Sequences, TLC

\* ---------------------------------------------------------------- bounds
\* block.timestamp runs from 0 to MaxTime.
MaxTime == 1
\* At most MaxClaims distinct digests are ever performed or cancelled.
MaxClaims == 1
\* An account other than the deployer holds at most MaxAbilities ability
\* bits at a time.
MaxAbilities == 2
MaxValue == 2

\* ------------------------------------------------------------- addresses
ZeroAddress == "0x0"
\* Externally owned accounts that can send transactions and sign.
Accounts == {"alice", "bob"}
Addresses == Accounts \cup {ZeroAddress}
\* What ecrecover yields for a well-formed signature over another message:
\* some address nobody in the model controls.
UnrelatedAddress == "0xunrelated"
\* address(this) of the ledger instance.
Self == "xcert"
\* address(this) of a second deployment of the same contract.
Other == "xcert2"
Instances == {Self, Other}
\* The fee token contract.
FeeToken == "token"

\* -------------------------------------------------------- error constants
OK == "ok"
INVALID_SIGNATURE == "007005"
INVALID_SIGNATURE_KIND == "007006"
CLAIM_PERFORMED == "007007"
CLAIM_EXPIRED == "007008"
CLAIM_CANCELED == "007009"
NOT_OWNER == "007010"
\* Failure of ERC20.transferFrom (the fee token is an external contract).
FEE_TRANSFER_FAILED == "erc20-revert"
\* The revert without reason of the ABI decoder (pragma solidity 0.8.6, ABI
\* coder v2) on a value outside the range of its type.
ABI_DECODING_FAILED == "revert"

\* nf-token-metadata.sol
ZERO_ADDRESS == "004001"
NOT_VALID_NFT == "004002"
NFT_ALREADY_EXISTS == "004006"
\* xcert.sol
CAPABILITY_NOT_SUPPORTED == "007001"
NOT_VALID_XCERT == "007003"
\* Abilitable: the caller lacks the required ability; a caller revokes its
\* own MANAGE_ABILITIES without allowSuperRevoke.
NOT_AUTHORIZED == "Unauthorized"
CANNOT_REVOKE_OWN_SUPER_ABILITY == "SuperRevokeNotAllowed"
\* assert(...) failing.
PANIC == "panic"

\* --------------------------------------------------------------- abilities
ABILITY_MANAGE_ABILITIES == 1
ABILITY_ALLOW_MANAGE_ABILITIES == 2
ABILITY_CREATE_ASSET == 16
ABILITY_REVOKE_ASSET == 32
ABILITY_TOGGLE_TRANSFERS == 64
ABILITY_UPDATE_ASSET_URI_INTEGRITY_DIGEST == 128
ABILITY_UPDATE_URI == 256
ABILITY_ALLOW_CREATE_ASSET == 512
ABILITY_ALLOW_UPDATE_ASSET == 1024

\* ------------------------------------------------------------ capabilities
MUTABLE == "0x0d04c3b8"
BURNABLE == "0x9d118770"
PAUSABLE == "0xbedb86fb"
REVOKABLE == "0x20c5429b"

\* bytes32(0) in idToIntegrityDigest.
NoDigest == "0x00"

\* ------------------------------------------------------- signature kinds
eth_sign == 0
trezor == 1
no_prefix == 2
SignatureKind == {eth_sign, trezor, no_prefix}

ETH_SIGN_PREFIX == "\\x19Ethereum Signed Message:\\n32"
TREZOR_PREFIX == "\\x19Ethereum Signed Message:\\n\\x20"
NO_PREFIX == ""

\* ------------------------------------------------------------------ state
VARIABLES
  claimPerformed,    \* set of digests d with claimPerformed[d] = true
  claimCancelled,    \* set of digests d with claimCancelled[d] = true
  ownerToOperators,  \* [owner -> [operator -> BOOLEAN]]
  balances,          \* fee token: [address -> Nat]
  now,               \* block.timestamp
  last,              \* the last transaction: [op, sender, result, changed]
  other,             \* the claim state of the deployment at address Other
  idToOwner,              \* [token id -> address], ZeroAddress: no such token
  idToApproval,           \* [token id -> address]
  ownerToNFTokenCount,    \* [address -> Nat]
  idToIntegrityDigest,    \* [token id -> digest], NoDigest: bytes32(0)
  isPaused,               \* BOOLEAN
  uri,                    \* <<uriPrefix, uriPostfix>>
  supportedInterfaces,    \* the capabilities c with supportedInterfaces[c] = true
  addressToAbility,       \* [address -> ability bitmask]
  deployment              \* the ledgers, proxies and gateway that orders run on

\* The asset side of the ledger.
assetVars ==
  <<idToOwner, idToApproval, ownerToNFTokenCount, idToIntegrityDigest, isPaused, uri,
    supportedInterfaces, addressToAbility>>

\* State that the transactions on claims leave alone: the other
\* deployment, the asset side of this one and the gateway's deployment.
elsewhere == <<other, assetVars, deployment>>
vars == <<claimPerformed, claimCancelled, ownerToOperators, balances, now, last, elsewhere>>
ledgerVars == <<claimPerformed, claimCancelled, ownerToOperators, balances>>

\* The contract state a handler runs on.
State ==
  [claimPerformed |-> claimPerformed,
   claimCancelled |-> claimCancelled,
   ownerToOperators |-> ownerToOperators,
   balances |-> balances,
   timestamp |-> now,
   this |-> Self]

\* The same for the deployment at Other; the fee token and the clock are
\* shared.
OtherState ==
  [claimPerformed |-> other.claimPerformed,
   claimCancelled |-> other.claimCancelled,
   ownerToOperators |-> other.ownerToOperators,
   balances |-> balances,
   timestamp |-> now,
   this |-> Other]

Revert(st, error) == [result |-> error, st |-> st, events |-> <<>>]

\* The whole storage of the ledger: the claim side and the asset side.
LedgerState ==
  [claimPerformed |-> claimPerformed,
   claimCancelled |-> claimCancelled,
   ownerToOperators |-> ownerToOperators,
   balances |-> balances,
   timestamp |-> now,
   this |-> Self,
   idToOwner |-> idToOwner,
   idToApproval |-> idToApproval,
   ownerToNFTokenCount |-> ownerToNFTokenCount,
   idToIntegrityDigest |-> idToIntegrityDigest,
   isPaused |-> isPaused,
   uri |-> uri,
   supportedInterfaces |-> supportedInterfaces,
   addressToAbility |-> addressToAbility]

\* ----------------------------------------------------------- ClaimCodec
\* keccak256(abi.encodePacked(...)) of fixed-width fields: the packed
\* encoding is injective on the field list and keccak256 is taken to be
\* collision free, so the digest is identified with the ordered field list.
\* A variant that leaves address(this) out of the encoding.
generateClaim_WithoutInstance(this, owner, operator, approved, feeToken, feeValue, feeRecipient, seed, expiration) ==
  <<Self, owner, operator, approved, feeToken, feeValue, feeRecipient, seed, expiration>>

\* A variant that leaves _seed out of the encoding.
generateClaim_WithoutSeed(this, owner, operator, approved, feeToken, feeValue, feeRecipient, seed, expiration) ==
  <<this, owner, operator, approved, feeToken, feeValue, feeRecipient, 0, expiration>>

generateClaim(this, owner, operator, approved, feeToken, feeValue, feeRecipient, seed, expiration) ==
  <<this, owner, operator, approved, feeToken, feeValue, feeRecipient, seed, expiration>>

\* -------------------------------------------------------- SignatureVerifier
\* The message a signature kind feeds to ecrecover: the digest re-hashed
\* with the kind's prefix, or the digest itself.
SignedMessage(kind, claim) ==
  IF kind = eth_sign THEN [claim |-> claim, prefix |-> ETH_SIGN_PREFIX]
  ELSE IF kind = trezor THEN [claim |-> claim, prefix |-> TREZOR_PREFIX]
  ELSE [claim |-> claim, prefix |-> NO_PREFIX]

\* (r, s, v) are represented by the key and the message they were made
\* with; key = ZeroAddress stands for an (r, s, v) that is no signature of
\* anything (for example v outside {27, 28}).
Sign(key, kind, claim) == [key |-> key, message |-> SignedMessage(kind, claim), kind |-> kind]

\* The precompile: the signer's address for the message that was signed,
\* address(0) for a malformed signature, an unrelated address otherwise.
ecrecover(message, signature) ==
  IF signature.key = ZeroAddress THEN ZeroAddress
  ELSE IF signature.message = message THEN signature.key
  ELSE UnrelatedAddress

\* The copy of the calldata SignatureData into memory for the call of
\* isValidSignature: the decoder reverts on a kind outside the enum.
abiDecodeSignatureData(signature) ==
  IF signature.kind \in SignatureKind
    THEN [reverted |-> FALSE, value |-> signature]
    ELSE [reverted |-> TRUE, value |-> signature]

\* Variants: an unknown kind is verified as no_prefix; as eth_sign.
isValidSignature_FallsBackToNoPrefix(signer, claim, signature) ==
  IF signature.kind = eth_sign
    THEN [reverted |-> FALSE,
          value |-> signer = ecrecover([claim |-> claim, prefix |-> ETH_SIGN_PREFIX], signature)]
  ELSE IF signature.kind = trezor
    THEN [reverted |-> FALSE,
          value |-> signer = ecrecover([claim |-> claim, prefix |-> TREZOR_PREFIX], signature)]
  ELSE [reverted |-> FALSE,
        value |-> signer = ecrecover([claim |-> claim, prefix |-> NO_PREFIX], signature)]

isValidSignature(signer, claim, signature) ==
  IF signature.kind = eth_sign
    THEN [reverted |-> FALSE,
          value |-> signer = ecrecover([claim |-> claim, prefix |-> ETH_SIGN_PREFIX], signature)]
  ELSE IF signature.kind = trezor
    THEN [reverted |-> FALSE,
          value |-> signer = ecrecover([claim |-> claim, prefix |-> TREZOR_PREFIX], signature)]
  ELSE IF signature.kind = no_prefix
    THEN [reverted |-> FALSE,
          value |-> signer = ecrecover([claim |-> claim, prefix |-> NO_PREFIX], signature)]
  ELSE [reverted |-> TRUE, value |-> FALSE]

\* ------------------------------------------------------------- fee token
\* ERC20(_feeToken).transferFrom(_from, _to, _value): applies the transfer
\* or fails and applies nothing.
transferFrom(bal, from, to, value) ==
  IF bal[from] < value
    THEN [ok |-> FALSE, balances |-> bal]
    ELSE [ok |-> TRUE,
          balances |-> [a \in DOMAIN bal |->
                          IF a = from /\ a = to THEN bal[a]
                          ELSE IF a = from THEN bal[a] - value
                          ELSE IF a = to THEN bal[a] + value
                          ELSE bal[a]]]

transfer(bal, sender, to, value) == transferFrom(bal, sender, to, value)

\* ---------------------------------------------------------------- ledger
ApprovalForAll(owner, operator, approved) ==
  [event |-> "ApprovalForAll", owner |-> owner, operator |-> operator, approved |-> approved]

setApprovalForAll(st, sender, operator, approved) ==
  [result |-> OK,
   st |-> [st EXCEPT !.ownerToOperators[sender][operator] = approved],
   events |-> <<ApprovalForAll(sender, operator, approved)>>]

isApprovedForAll(st, owner, operator) == st.ownerToOperators[owner][operator]

\* Variants of the require chain, as a slip in the source would leave it.
\* Without the signature require.
setApprovalRequires_NoSignatureCheck(st, owner, claim, expiration, signature) ==
  IF ~(claim \notin st.claimCancelled) THEN CLAIM_CANCELED
  ELSE IF ~(claim \notin st.claimPerformed) THEN CLAIM_PERFORMED
  ELSE IF ~(expiration >= st.timestamp) THEN CLAIM_EXPIRED
  ELSE OK

\* Without the claimCancelled require.
setApprovalRequires_NoCancelCheck(st, owner, claim, expiration, signature) ==
  LET valid == isValidSignature(owner, claim, signature)
  IN  IF abiDecodeSignatureData(signature).reverted THEN ABI_DECODING_FAILED
      ELSE IF valid.reverted THEN INVALID_SIGNATURE_KIND
      ELSE IF ~valid.value THEN INVALID_SIGNATURE
      ELSE IF ~(claim \notin st.claimPerformed) THEN CLAIM_PERFORMED
      ELSE IF ~(expiration >= st.timestamp) THEN CLAIM_EXPIRED
      ELSE OK

\* Without the expiration require.
setApprovalRequires_NoExpiryCheck(st, owner, claim, expiration, signature) ==
  LET valid == isValidSignature(owner, claim, signature)
  IN  IF ~(claim \notin st.claimCancelled) THEN CLAIM_CANCELED
      ELSE IF abiDecodeSignatureData(signature).reverted THEN ABI_DECODING_FAILED
      ELSE IF valid.reverted THEN INVALID_SIGNATURE_KIND
      ELSE IF ~valid.value THEN INVALID_SIGNATURE
      ELSE IF ~(claim \notin st.claimPerformed) THEN CLAIM_PERFORMED
      ELSE OK

\* With the expiration require moved to the front.
setApprovalRequires_ExpiryFirst(st, owner, claim, expiration, signature) ==
  LET valid == isValidSignature(owner, claim, signature)
  IN  IF ~(expiration >= st.timestamp) THEN CLAIM_EXPIRED
      ELSE IF ~(claim \notin st.claimCancelled) THEN CLAIM_CANCELED
      ELSE IF abiDecodeSignatureData(signature).reverted THEN ABI_DECODING_FAILED
      ELSE IF valid.reverted THEN INVALID_SIGNATURE_KIND
      ELSE IF ~valid.value THEN INVALID_SIGNATURE
      ELSE IF ~(claim \notin st.claimPerformed) THEN CLAIM_PERFORMED
      ELSE OK

\* With the expiration require made strict.
setApprovalRequires_StrictExpiry(st, owner, claim, expiration, signature) ==
  LET valid == isValidSignature(owner, claim, signature)
  IN  IF ~(claim \notin st.claimCancelled) THEN CLAIM_CANCELED
      ELSE IF abiDecodeSignatureData(signature).reverted THEN ABI_DECODING_FAILED
      ELSE IF valid.reverted THEN INVALID_SIGNATURE_KIND
      ELSE IF ~valid.value THEN INVALID_SIGNATURE
      ELSE IF ~(claim \notin st.claimPerformed) THEN CLAIM_PERFORMED
      ELSE IF ~(expiration > st.timestamp) THEN CLAIM_EXPIRED
      ELSE OK

\* The require chain of setApprovalForAllWithSignature, in source order:
\* the error of the first require that fails, OK when all pass.
setApprovalRequires(st, owner, claim, expiration, signature) ==
  LET valid == isValidSignature(owner, claim, signature)
  IN  IF ~(claim \notin st.claimCancelled) THEN CLAIM_CANCELED
      ELSE IF abiDecodeSignatureData(signature).reverted THEN ABI_DECODING_FAILED
      ELSE IF valid.reverted THEN INVALID_SIGNATURE_KIND
      ELSE IF ~valid.value THEN INVALID_SIGNATURE
      ELSE IF ~(claim \notin st.claimPerformed) THEN CLAIM_PERFORMED
      ELSE IF ~(expiration >= st.timestamp) THEN CLAIM_EXPIRED
      ELSE OK

\* Variants of the writes: claimPerformed left unset; the wrong mapping
\* set; the approval set to true whatever _approved is.
setApprovalWrites_AlwaysApproves(st, claim, owner, operator, approved) ==
  [st EXCEPT !.claimPerformed = @ \cup {claim},
             !.ownerToOperators[owner][operator] = TRUE]

setApprovalWrites_NoPerformedMark(st, claim, owner, operator, approved) ==
  [st EXCEPT !.ownerToOperators[owner][operator] = approved]

setApprovalWrites_MarksCancelled(st, claim, owner, operator, approved) ==
  [st EXCEPT !.claimCancelled = @ \cup {claim},
             !.ownerToOperators[owner][operator] = approved]

\* Variant in which the performed mark of the claim replaces the earlier ones.
setApprovalWrites_ForgetsEarlier(st, claim, owner, operator, approved) ==
  [st EXCEPT !.claimPerformed = {claim},
             !.ownerToOperators[owner][operator] = approved]

\* The two storage writes that follow the requires.
setApprovalWrites(st, claim, owner, operator, approved) ==
  [st EXCEPT !.claimPerformed = @ \cup {claim},
             !.ownerToOperators[owner][operator] = approved]

\* Variant of the fee step without the defaulting of the recipient.
setApprovalFee_NoDefault(st, sender, owner, feeToken, feeValue, feeRecipient) ==
  transferFrom(st.balances, owner, feeRecipient, feeValue)

\* The fee step: the recipient defaults to msg.sender, then the external
\* call; a failing call reverts the transaction.
setApprovalFee(st, sender, owner, feeToken, feeValue, feeRecipient) ==
  LET recipient == IF feeRecipient = ZeroAddress THEN sender ELSE feeRecipient
  IN  transferFrom(st.balances, owner, recipient, feeValue)

\* Variant of the handler: the outcome of the fee transfer is swallowed.
setApprovalForAllWithSignature_IgnoresFeeFailure(st, sender, owner, operator, approved, feeToken, feeValue, feeRecipient, seed, expiration, signature) ==
  LET claim == generateClaim(st.this, owner, operator, approved, feeToken, feeValue,
                             feeRecipient, seed, expiration)
      check == setApprovalRequires(st, owner, claim, expiration, signature)
      written == setApprovalWrites(st, claim, owner, operator, approved)
      fee == setApprovalFee(written, sender, owner, feeToken, feeValue, feeRecipient)
  IN  IF check # OK THEN Revert(st, check)
      ELSE [result |-> OK,
            st |-> [written EXCEPT !.balances = fee.balances],
            events |-> <<ApprovalForAll(owner, operator, approved)>>]

setApprovalForAllWithSignature(st, sender, owner, operator, approved, feeToken, feeValue, feeRecipient, seed, expiration, signature) ==
  LET claim == generateClaim(st.this, owner, operator, approved, feeToken, feeValue,
                             feeRecipient, seed, expiration)
      check == setApprovalRequires(st, owner, claim, expiration, signature)
      written == setApprovalWrites(st, claim, owner, operator, approved)
      fee == setApprovalFee(written, sender, owner, feeToken, feeValue, feeRecipient)
  IN  IF check # OK THEN Revert(st, check)
      ELSE IF ~fee.ok THEN Revert(st, FEE_TRANSFER_FAILED)
      ELSE [result |-> OK,
            st |-> [written EXCEPT !.balances = fee.balances],
            events |-> <<ApprovalForAll(owner, operator, approved)>>]

\* Variants of the cancel require chain: without the claimPerformed
\* require; reading claimCancelled where claimPerformed is meant; with an
\* added require(!claimCancelled); without the msg.sender require.
cancelRequires_NoPerformedCheck(st, sender, owner, claim) ==
  IF ~(sender = owner) THEN NOT_OWNER
  ELSE OK

cancelRequires_ChecksCancelled(st, sender, owner, claim) ==
  IF ~(sender = owner) THEN NOT_OWNER
  ELSE IF ~(claim \notin st.claimCancelled) THEN CLAIM_PERFORMED
  ELSE OK

cancelRequires_RejectsCancelled(st, sender, owner, claim) ==
  IF ~(sender = owner) THEN NOT_OWNER
  ELSE IF ~(claim \notin st.claimPerformed) THEN CLAIM_PERFORMED
  ELSE IF ~(claim \notin st.claimCancelled) THEN CLAIM_CANCELED
  ELSE OK

cancelRequires_NoOwnerCheck(st, sender, owner, claim) ==
  IF ~(claim \notin st.claimPerformed) THEN CLAIM_PERFORMED
  ELSE OK

\* The require chain of cancelSetApprovalForAllWithSignature.
cancelRequires(st, sender, owner, claim) ==
  IF ~(sender = owner) THEN NOT_OWNER
  ELSE IF ~(claim \notin st.claimPerformed) THEN CLAIM_PERFORMED
  ELSE OK

cancelSetApprovalForAllWithSignature(st, sender, owner, operator, approved, feeToken, feeValue, feeRecipient, seed, expiration) ==
  LET claim == generateClaim(st.this, owner, operator, approved, feeToken, feeValue,
                             feeRecipient, seed, expiration)
      check == cancelRequires(st, sender, owner, claim)
  IN  IF check # OK THEN Revert(st, check)
      ELSE [result |-> OK,
            st |-> [st EXCEPT !.claimCancelled = @ \cup {claim}],
            events |-> <<>>]

\* ---------------------------------------------------------- bit masks
RECURSIVE BitAnd(_, _)
BitAnd(a, b) ==
  IF a = 0 \/ b = 0 THEN 0
  ELSE (a % 2) * (b % 2) + 2 * BitAnd(a \div 2, b \div 2)

BitOr(a, b) == a + b - BitAnd(a, b)

\* a & ~b
BitAndNot(a, b) == a - BitAnd(a, b)

RECURSIVE BitCount(_)
BitCount(a) == IF a = 0 THEN 0 ELSE (a % 2) + BitCount(a \div 2)

\* ------------------------------------------------------------- Abilitable
\* hasAbility(mask, bit) == (mask & bit) != 0
hasAbility(mask, bit) == BitAnd(mask, bit) # 0

\* The modifier hasAbilities(_abilities), evaluated for msg.sender.
hasAbilities(st, sender, abilities) == hasAbility(st.addressToAbility[sender], abilities)

isAble(st, target, abilities) == hasAbility(st.addressToAbility[target], abilities)

SetAbilities(target, abilities) ==
  [event |-> "SetAbilities", target |-> target, abilities |-> abilities]

\* Variant: the granted mask replaces the account's mask.
grantAbilities_Overwrites(st, sender, target, abilities) ==
  IF ~hasAbilities(st, sender, ABILITY_MANAGE_ABILITIES) THEN Revert(st, NOT_AUTHORIZED)
  ELSE [result |-> OK,
        st |-> [st EXCEPT !.addressToAbility[target] = abilities],
        events |-> <<SetAbilities(target, abilities)>>]

grantAbilities(st, sender, target, abilities) ==
  IF ~hasAbilities(st, sender, ABILITY_MANAGE_ABILITIES) THEN Revert(st, NOT_AUTHORIZED)
  ELSE LET mask == BitOr(st.addressToAbility[target], abilities)
       IN  [result |-> OK,
            st |-> [st EXCEPT !.addressToAbility[target] = mask],
            events |-> <<SetAbilities(target, mask)>>]

\* Variant of revokeAbilities without the confirmation for the caller's own
\* super ability.
revokeAbilities_NoSuperGuard(st, sender, target, abilities, allowSuperRevoke) ==
  IF ~hasAbilities(st, sender, ABILITY_MANAGE_ABILITIES) THEN Revert(st, NOT_AUTHORIZED)
  ELSE LET mask == BitAndNot(st.addressToAbility[target], abilities)
       IN  [result |-> OK,
            st |-> [st EXCEPT !.addressToAbility[target] = mask],
            events |-> <<SetAbilities(target, mask)>>]

\* Variant: the whole mask of the account is cleared.
revokeAbilities_ClearsAll(st, sender, target, abilities, allowSuperRevoke) ==
  IF ~hasAbilities(st, sender, ABILITY_MANAGE_ABILITIES) THEN Revert(st, NOT_AUTHORIZED)
  ELSE IF /\ ~allowSuperRevoke
          /\ target = sender
          /\ hasAbility(abilities, ABILITY_MANAGE_ABILITIES)
    THEN Revert(st, CANNOT_REVOKE_OWN_SUPER_ABILITY)
  ELSE [result |-> OK,
        st |-> [st EXCEPT !.addressToAbility[target] = 0],
        events |-> <<SetAbilities(target, 0)>>]

revokeAbilities(st, sender, target, abilities, allowSuperRevoke) ==
  IF ~hasAbilities(st, sender, ABILITY_MANAGE_ABILITIES) THEN Revert(st, NOT_AUTHORIZED)
  ELSE IF /\ ~allowSuperRevoke
          /\ target = sender
          /\ hasAbility(abilities, ABILITY_MANAGE_ABILITIES)
    THEN Revert(st, CANNOT_REVOKE_OWN_SUPER_ABILITY)
  ELSE LET mask == BitAndNot(st.addressToAbility[target], abilities)
       IN  [result |-> OK,
            st |-> [st EXCEPT !.addressToAbility[target] = mask],
            events |-> <<SetAbilities(target, mask)>>]

\* ------------------------------------------------- AssetLedger (client)
\* BigNumber.toHexString: "0x", then the hexadecimal digits, padded with a
\* zero to an even number of digits ("0x00" for zero).
HexDigits == <<"0", "1", "2", "3", "4", "5", "6", "7", "8", "9", "a", "b", "c", "d", "e", "f">>

RECURSIVE hexOf(_)
hexOf(n) == IF n = 0 THEN <<>> ELSE hexOf(n \div 16) \o <<HexDigits[(n % 16) + 1]>>

toHexString(n) ==
  LET h == hexOf(n)
  IN  <<"0", "x">> \o (IF h = <<>> THEN <<"0", "0">>
                       ELSE IF Len(h) % 2 = 1 THEN <<"0">> \o h
                       ELSE h)

\* let bitAbilities = bigNumberify(0);
\* abilities.forEach((ability) => { bitAbilities = bitAbilities.add(ability); });
RECURSIVE bitAbilities(_)
bitAbilities(abilities) ==
  IF abilities = <<>> THEN 0
  ELSE bitAbilities(SubSeq(abilities, 1, Len(abilities) - 1)) + abilities[Len(abilities)]

getBitfieldFromAbilities(abilities) == toHexString(bitAbilities(abilities))

\* AssetLedger.grantAbilities: the call the client sends for the list.
AssetLedger_grantAbilities(st, sender, accountId, abilities) ==
  grantAbilities(st, sender, accountId, bitAbilities(abilities))

\* Variant in which the flag is raised only for an account other than the caller.
AssetLedger_revokeAbilitiesCall_OthersOnly(sender, accountId, abilities) ==
  [accountId |-> accountId,
   abilities |-> bitAbilities(abilities),
   allowSuperRevoke |-> /\ accountId # sender
                        /\ \E i \in DOMAIN abilities : abilities[i] = ABILITY_MANAGE_ABILITIES]

\* The arguments AssetLedger.revokeAbilities passes to the ledger: the
\* account, the sum of the list, and the flag (indexOf(MANAGE_ABILITIES) !== -1).
AssetLedger_revokeAbilitiesCall(sender, accountId, abilities) ==
  [accountId |-> accountId,
   abilities |-> bitAbilities(abilities),
   allowSuperRevoke |-> \E i \in DOMAIN abilities : abilities[i] = ABILITY_MANAGE_ABILITIES]

\* AssetLedger.revokeAbilities
AssetLedger_revokeAbilities(st, sender, accountId, abilities) ==
  LET call == AssetLedger_revokeAbilitiesCall(sender, accountId, abilities)
  IN  revokeAbilities(st, sender, call.accountId, call.abilities, call.allowSuperRevoke)

\* ------------------------------------------------------------ asset ledger
Transfer(from, to, tokenId) ==
  [event |-> "Transfer", from |-> from, to |-> to, tokenId |-> tokenId]

IsPaused(paused) == [event |-> "IsPaused", isPaused |-> paused]

TokenURIIntegrityDigestUpdate(tokenId, digest) ==
  [event |-> "TokenURIIntegrityDigestUpdate", tokenId |-> tokenId, digest |-> digest]

\* Variant of _create that does not look for an existing owner.
_create_Overwrites(st, to, tokenId) ==
  IF ~(to # ZeroAddress) THEN Revert(st, ZERO_ADDRESS)
  ELSE [result |-> OK,
        st |-> [st EXCEPT !.idToOwner[tokenId] = to,
                          !.ownerToNFTokenCount[to] = @ + 1],
        events |-> <<Transfer(ZeroAddress, to, tokenId)>>]

_create(st, to, tokenId) ==
  IF ~(to # ZeroAddress) THEN Revert(st, ZERO_ADDRESS)
  ELSE IF ~(st.idToOwner[tokenId] = ZeroAddress) THEN Revert(st, NFT_ALREADY_EXISTS)
  ELSE [result |-> OK,
        st |-> [st EXCEPT !.idToOwner[tokenId] = to,
                          !.ownerToNFTokenCount[to] = @ + 1],
        events |-> <<Transfer(ZeroAddress, to, tokenId)>>]

\* Variant of _destroy that leaves the owner's count as it is.
_destroy_KeepsCount(st, tokenId) ==
  LET owner == st.idToOwner[tokenId]
  IN  IF ~(owner # ZeroAddress) THEN Revert(st, NOT_VALID_NFT)
      ELSE IF ~(st.ownerToNFTokenCount[owner] > 0) THEN Revert(st, PANIC)
      ELSE [result |-> OK,
            st |-> [st EXCEPT !.idToApproval[tokenId] = ZeroAddress,
                              !.idToOwner[tokenId] = ZeroAddress],
            events |-> <<Transfer(owner, ZeroAddress, tokenId)>>]

_destroy(st, tokenId) ==
  LET owner == st.idToOwner[tokenId]
  IN  IF ~(owner # ZeroAddress) THEN Revert(st, NOT_VALID_NFT)
      ELSE IF ~(st.ownerToNFTokenCount[owner] > 0) THEN Revert(st, PANIC)
      ELSE [result |-> OK,
            st |-> [st EXCEPT !.idToApproval[tokenId] = ZeroAddress,
                              !.ownerToNFTokenCount[owner] = @ - 1,
                              !.idToOwner[tokenId] = ZeroAddress],
            events |-> <<Transfer(owner, ZeroAddress, tokenId)>>]

_setUri(st, prefix, postfix) == [st EXCEPT !.uri = <<prefix, postfix>>]

\* Variants of create: without the modifier; with the order-scoped ability
\* accepted in place of ABILITY_CREATE_ASSET.
create_NoAbilityCheck(st, sender, to, id, tokenURIIntegrityDigest) ==
  LET created == _create(st, to, id)
  IN  IF created.result # OK THEN Revert(st, created.result)
      ELSE [result |-> OK,
            st |-> [created.st EXCEPT !.idToIntegrityDigest[id] = tokenURIIntegrityDigest],
            events |-> created.events]

create_AcceptsAllowCreate(st, sender, to, id, tokenURIIntegrityDigest) ==
  LET created == _create(st, to, id)
  IN  IF ~hasAbilities(st, sender, ABILITY_CREATE_ASSET + ABILITY_ALLOW_CREATE_ASSET)
        THEN Revert(st, NOT_AUTHORIZED)
      ELSE IF created.result # OK THEN Revert(st, created.result)
      ELSE [result |-> OK,
            st |-> [created.st EXCEPT !.idToIntegrityDigest[id] = tokenURIIntegrityDigest],
            events |-> created.events]

create(st, sender, to, id, tokenURIIntegrityDigest) ==
  LET created == _create(st, to, id)
  IN  IF ~hasAbilities(st, sender, ABILITY_CREATE_ASSET) THEN Revert(st, NOT_AUTHORIZED)
      ELSE IF created.result # OK THEN Revert(st, created.result)
      ELSE [result |-> OK,
            st |-> [created.st EXCEPT !.idToIntegrityDigest[id] = tokenURIIntegrityDigest],
            events |-> created.events]

setUri(st, sender, uriPrefix, uriPostfix) ==
  IF ~hasAbilities(st, sender, ABILITY_UPDATE_URI) THEN Revert(st, NOT_AUTHORIZED)
  ELSE [result |-> OK, st |-> _setUri(st, uriPrefix, uriPostfix), events |-> <<>>]

\* revoke as it would be if the ledger's capabilities were not consulted.
revoke_NoCapabilityCheck(st, sender, tokenId) ==
  LET destroyed == _destroy(st, tokenId)
  IN  IF ~hasAbilities(st, sender, ABILITY_REVOKE_ASSET) THEN Revert(st, NOT_AUTHORIZED)
      ELSE IF destroyed.result # OK THEN Revert(st, destroyed.result)
      ELSE [result |-> OK,
            st |-> [destroyed.st EXCEPT !.idToIntegrityDigest[tokenId] = NoDigest],
            events |-> destroyed.events]

revoke(st, sender, tokenId) ==
  LET destroyed == _destroy(st, tokenId)
  IN  IF ~hasAbilities(st, sender, ABILITY_REVOKE_ASSET) THEN Revert(st, NOT_AUTHORIZED)
      ELSE IF ~(REVOKABLE \in st.supportedInterfaces) THEN Revert(st, CAPABILITY_NOT_SUPPORTED)
      ELSE IF destroyed.result # OK THEN Revert(st, destroyed.result)
      ELSE [result |-> OK,
            st |-> [destroyed.st EXCEPT !.idToIntegrityDigest[tokenId] = NoDigest],
            events |-> destroyed.events]

\* setPause as it would be if the ledger's capabilities were not consulted.
setPause_NoCapabilityCheck(st, sender, paused) ==
  IF ~hasAbilities(st, sender, ABILITY_TOGGLE_TRANSFERS) THEN Revert(st, NOT_AUTHORIZED)
  ELSE [result |-> OK, st |-> [st EXCEPT !.isPaused = paused], events |-> <<IsPaused(paused)>>]

setPause(st, sender, paused) ==
  IF ~hasAbilities(st, sender, ABILITY_TOGGLE_TRANSFERS) THEN Revert(st, NOT_AUTHORIZED)
  ELSE IF ~(PAUSABLE \in st.supportedInterfaces) THEN Revert(st, CAPABILITY_NOT_SUPPORTED)
  ELSE [result |-> OK, st |-> [st EXCEPT !.isPaused = paused], events |-> <<IsPaused(paused)>>]

updateTokenURIIntegrityDigest(st, sender, tokenId, tokenURIIntegrityDigest) ==
  IF ~hasAbilities(st, sender, ABILITY_UPDATE_ASSET_URI_INTEGRITY_DIGEST)
    THEN Revert(st, NOT_AUTHORIZED)
  ELSE IF ~(MUTABLE \in st.supportedInterfaces) THEN Revert(st, CAPABILITY_NOT_SUPPORTED)
  ELSE IF ~(st.idToOwner[tokenId] # ZeroAddress) THEN Revert(st, NOT_VALID_XCERT)
  ELSE [result |-> OK,
        st |-> [st EXCEPT !.idToIntegrityDigest[tokenId] = tokenURIIntegrityDigest],
        events |-> <<TokenURIIntegrityDigestUpdate(tokenId, tokenURIIntegrityDigest)>>]

\* ------------------------------------------------- transfers and destroy
TRANSFERS_DISABLED == "007002"
NOT_XCERT_OWNER_OR_OPERATOR == "007004"
NOT_OWNER_APPROWED_OR_OPERATOR == "004004"
NOT_ABLE_TO_RECEIVE_NFT == "004005"
\* A call to a contract that has no such function reverts without reason.
CALL_REVERTED == "call-reverted"

\* NFTokenMetadata._transferFrom as it would be without the check of the caller.
NFTokenMetadata_transferFrom_AnyCaller(st, sender, from, to, tokenId) ==
  IF ~(from # ZeroAddress) THEN Revert(st, ZERO_ADDRESS)
  ELSE IF ~(st.idToOwner[tokenId] = from) THEN Revert(st, NOT_VALID_NFT)
  ELSE IF ~(to # ZeroAddress) THEN Revert(st, ZERO_ADDRESS)
  ELSE IF ~(st.ownerToNFTokenCount[from] > 0) THEN Revert(st, PANIC)
  ELSE LET removed == [st EXCEPT !.idToApproval[tokenId] = ZeroAddress,
                                 !.ownerToNFTokenCount[from] = @ - 1]
       IN  [result |-> OK,
            st |-> [removed EXCEPT !.idToOwner[tokenId] = to,
                                   !.ownerToNFTokenCount[to] = @ + 1],
            events |-> <<Transfer(from, to, tokenId)>>]

\* NFTokenMetadata._transferFrom as it would be without the delete of the approval.
NFTokenMetadata_transferFrom_KeepsApproval(st, sender, from, to, tokenId) ==
  IF ~(from # ZeroAddress) THEN Revert(st, ZERO_ADDRESS)
  ELSE IF ~(st.idToOwner[tokenId] = from) THEN Revert(st, NOT_VALID_NFT)
  ELSE IF ~(to # ZeroAddress) THEN Revert(st, ZERO_ADDRESS)
  ELSE IF ~(\/ from = sender
            \/ st.idToApproval[tokenId] = sender
            \/ st.ownerToOperators[from][sender])
    THEN Revert(st, NOT_OWNER_APPROWED_OR_OPERATOR)
  ELSE IF ~(st.ownerToNFTokenCount[from] > 0) THEN Revert(st, PANIC)
  ELSE LET removed == [st EXCEPT !.ownerToNFTokenCount[from] = @ - 1]
       IN  [result |-> OK,
            st |-> [removed EXCEPT !.idToOwner[tokenId] = to,
                                   !.ownerToNFTokenCount[to] = @ + 1],
            events |-> <<Transfer(from, to, tokenId)>>]

\* NFTokenMetadata._transferFrom
NFTokenMetadata_transferFrom(st, sender, from, to, tokenId) ==
  IF ~(from # ZeroAddress) THEN Revert(st, ZERO_ADDRESS)
  ELSE IF ~(st.idToOwner[tokenId] = from) THEN Revert(st, NOT_VALID_NFT)
  ELSE IF ~(to # ZeroAddress) THEN Revert(st, ZERO_ADDRESS)
  ELSE IF ~(\/ from = sender
            \/ st.idToApproval[tokenId] = sender
            \/ st.ownerToOperators[from][sender])
    THEN Revert(st, NOT_OWNER_APPROWED_OR_OPERATOR)
  ELSE IF ~(st.ownerToNFTokenCount[from] > 0) THEN Revert(st, PANIC)
  ELSE LET removed == [st EXCEPT !.idToApproval[tokenId] = ZeroAddress,
                                 !.ownerToNFTokenCount[from] = @ - 1]
       IN  [result |-> OK,
            st |-> [removed EXCEPT !.idToOwner[tokenId] = to,
                                   !.ownerToNFTokenCount[to] = @ + 1],
            events |-> <<Transfer(from, to, tokenId)>>]

\* Variant of Xcert._transferFrom without the pause check.
_transferFrom_NoPauseCheck(st, sender, from, to, tokenId) ==
  NFTokenMetadata_transferFrom(st, sender, from, to, tokenId)

\* Xcert._transferFrom overrides it with the pause check.
_transferFrom(st, sender, from, to, tokenId) ==
  IF ~(~st.isPaused) THEN Revert(st, TRANSFERS_DISABLED)
  ELSE NFTokenMetadata_transferFrom(st, sender, from, to, tokenId)

\* The contracts of the deployment. The proxies and the gateway do not
\* implement ERC721TokenReceiver, so the call of onERC721Received on them
\* reverts; st.onERC721Received holds the answer of those that do.
isDeployedContract(st, to) == to \in st.contracts

MAGIC_ON_ERC721_RECEIVED == "0x150b7a02"

\* _safeTransferFrom without the call of the receiver.
_safeTransferFrom_NoReceiverCall(st, sender, from, to, tokenId) ==
  _transferFrom(st, sender, from, to, tokenId)

_safeTransferFrom(st, sender, from, to, tokenId) ==
  IF isDeployedContract(st, to) /\ ~(to \in DOMAIN st.onERC721Received)
    THEN Revert(st, CALL_REVERTED)
  ELSE IF isDeployedContract(st, to) /\ st.onERC721Received[to] # MAGIC_ON_ERC721_RECEIVED
    THEN Revert(st, NOT_ABLE_TO_RECEIVE_NFT)
  ELSE _transferFrom(st, sender, from, to, tokenId)

safeTransferFrom(st, sender, from, to, tokenId) == _safeTransferFrom(st, sender, from, to, tokenId)

\* NFTokenMetadata.transferFrom, as Xcert inherits it.
Xcert_transferFrom(st, sender, from, to, tokenId) == _transferFrom(st, sender, from, to, tokenId)

NOT_OWNER_OR_OPERATOR == "004003"

Approval(owner, approved, tokenId) ==
  [event |-> "Approval", owner |-> owner, approved |-> approved, tokenId |-> tokenId]

approve(st, sender, approved, tokenId) ==
  LET tokenOwner == st.idToOwner[tokenId]
  IN  IF ~(tokenOwner = sender \/ st.ownerToOperators[tokenOwner][sender])
        THEN Revert(st, NOT_OWNER_OR_OPERATOR)
      ELSE [result |-> OK,
            st |-> [st EXCEPT !.idToApproval[tokenId] = approved],
            events |-> <<Approval(tokenOwner, approved, tokenId)>>]

\* Variant of destroy that also lets the address approved for the token in.
destroy_ApprovedToo(st, sender, tokenId) ==
  LET tokenOwner == st.idToOwner[tokenId]
      destroyed == _destroy(st, tokenId)
  IN  IF ~(BURNABLE \in st.supportedInterfaces) THEN Revert(st, CAPABILITY_NOT_SUPPORTED)
      ELSE IF destroyed.result # OK THEN Revert(st, destroyed.result)
      ELSE IF ~(\/ tokenOwner = sender
                \/ st.ownerToOperators[tokenOwner][sender]
                \/ st.idToApproval[tokenId] = sender)
        THEN Revert(st, NOT_XCERT_OWNER_OR_OPERATOR)
      ELSE [result |-> OK,
            st |-> [destroyed.st EXCEPT !.idToIntegrityDigest[tokenId] = NoDigest],
            events |-> destroyed.events]

\* Variant of destroy without the check of the caller.
destroy_AnyCaller(st, sender, tokenId) ==
  LET destroyed == _destroy(st, tokenId)
  IN  IF ~(BURNABLE \in st.supportedInterfaces) THEN Revert(st, CAPABILITY_NOT_SUPPORTED)
      ELSE IF destroyed.result # OK THEN Revert(st, destroyed.result)
      ELSE [result |-> OK,
            st |-> [destroyed.st EXCEPT !.idToIntegrityDigest[tokenId] = NoDigest],
            events |-> destroyed.events]

destroy(st, sender, tokenId) ==
  LET tokenOwner == st.idToOwner[tokenId]
      destroyed == _destroy(st, tokenId)
  IN  IF ~(BURNABLE \in st.supportedInterfaces) THEN Revert(st, CAPABILITY_NOT_SUPPORTED)
      ELSE IF destroyed.result # OK THEN Revert(st, destroyed.result)
      ELSE IF ~(tokenOwner = sender \/ st.ownerToOperators[tokenOwner][sender])
        THEN Revert(st, NOT_XCERT_OWNER_OR_OPERATOR)
      ELSE [result |-> OK,
            st |-> [destroyed.st EXCEPT !.idToIntegrityDigest[tokenId] = NoDigest],
            events |-> destroyed.events]

\* Variant of setAbilities that keeps the caller's own MANAGE_ABILITIES.
setAbilities_KeepsOwn(st, sender, target, abilities) ==
  IF ~hasAbilities(st, sender, ABILITY_MANAGE_ABILITIES) THEN Revert(st, NOT_AUTHORIZED)
  ELSE IF target = sender /\ ~hasAbility(abilities, ABILITY_MANAGE_ABILITIES)
    THEN Revert(st, CANNOT_REVOKE_OWN_SUPER_ABILITY)
  ELSE [result |-> OK,
        st |-> [st EXCEPT !.addressToAbility[target] = abilities],
        events |-> <<SetAbilities(target, abilities)>>]

\* Abilitable.setAbilities: the mask of the target is replaced.
setAbilities(st, sender, target, abilities) ==
  IF ~hasAbilities(st, sender, ABILITY_MANAGE_ABILITIES) THEN Revert(st, NOT_AUTHORIZED)
  ELSE [result |-> OK,
        st |-> [st EXCEPT !.addressToAbility[target] = abilities],
        events |-> <<SetAbilities(target, abilities)>>]

\* ------------------------------------------------------------- proxies
XcertCreateProxy == "xcertCreateProxy"
NFTokenSafeTransferProxy == "nftokenSafeTransferProxy"
TokenTransferProxy == "tokenTransferProxy"
XcertBurnProxy == "xcertBurnProxy"
AbilitableManageProxy == "abilitableManageProxy"
ActionsGateway == "actionsGateway"
Proxies ==
  {XcertCreateProxy, NFTokenSafeTransferProxy, TokenTransferProxy, XcertBurnProxy,
   AbilitableManageProxy}
Contracts == Proxies \cup {ActionsGateway}

\* Each proxy is Abilitable: its own mask per caller.
ABILITY_TO_EXECUTE == 16

\* The modifier hasAbilities(ABILITY_TO_EXECUTE) of a proxy, for msg.sender.
canExecute(st, proxy, sender) == hasAbility(st.proxyToAbility[proxy][sender], ABILITY_TO_EXECUTE)

\* Variant of NFTokenSafeTransferProxy.execute: a failure of the ledger's
\* safeTransferFrom is not passed on to the caller.
execute_IgnoresFailure(st, sender, target, a, b, c) ==
  LET sent == safeTransferFrom(st, NFTokenSafeTransferProxy, a, b, c)
  IN  IF ~canExecute(st, NFTokenSafeTransferProxy, sender) THEN Revert(st, NOT_AUTHORIZED)
      ELSE IF target # st.this THEN Revert(st, CALL_REVERTED)
      ELSE IF sent.result # OK THEN [result |-> OK, st |-> st, events |-> <<>>]
      ELSE sent

\* NFTokenSafeTransferProxy.execute
execute(st, sender, target, a, b, c) ==
  LET sent == safeTransferFrom(st, NFTokenSafeTransferProxy, a, b, c)
  IN  IF ~canExecute(st, NFTokenSafeTransferProxy, sender) THEN Revert(st, NOT_AUTHORIZED)
      ELSE IF target # st.this THEN Revert(st, CALL_REVERTED)
      ELSE IF sent.result # OK THEN Revert(st, sent.result)
      ELSE sent

\* Variant of XcertBurnProxy.destroy without the modifier.
XcertBurnProxy_destroy_AnyCaller(st, sender, xcert, id) ==
  LET burnt == destroy(st, XcertBurnProxy, id)
  IN  IF xcert # st.this THEN Revert(st, CALL_REVERTED)
      ELSE IF burnt.result # OK THEN Revert(st, burnt.result)
      ELSE burnt

\* XcertBurnProxy.destroy
XcertBurnProxy_destroy(st, sender, xcert, id) ==
  LET burnt == destroy(st, XcertBurnProxy, id)
  IN  IF ~canExecute(st, XcertBurnProxy, sender) THEN Revert(st, NOT_AUTHORIZED)
      ELSE IF xcert # st.this THEN Revert(st, CALL_REVERTED)
      ELSE IF burnt.result # OK THEN Revert(st, burnt.result)
      ELSE burnt

\* XcertCreateProxy.create
XcertCreateProxy_create(st, sender, xcert, to, id, tokenURIIntegrityDigest) ==
  LET created == create(st, XcertCreateProxy, to, id, tokenURIIntegrityDigest)
  IN  IF ~canExecute(st, XcertCreateProxy, sender) THEN Revert(st, NOT_AUTHORIZED)
      ELSE IF xcert # st.this THEN Revert(st, CALL_REVERTED)
      ELSE IF created.result # OK THEN Revert(st, created.result)
      ELSE created

\* TokenTransferProxy.execute
TokenTransferProxy_execute(st, sender, target, a, b, c) ==
  LET moved == transferFrom(st.balances, a, b, c)
  IN  IF ~canExecute(st, TokenTransferProxy, sender) THEN Revert(st, NOT_AUTHORIZED)
      ELSE IF target # FeeToken THEN Revert(st, CALL_REVERTED)
      ELSE IF ~moved.ok THEN Revert(st, FEE_TRANSFER_FAILED)
      ELSE [result |-> OK, st |-> [st EXCEPT !.balances = moved.balances], events |-> <<>>]

\* AbilitableManageProxy.set
AbilitableManageProxy_set(st, sender, target, to, abilities) ==
  LET done == setAbilities(st, AbilitableManageProxy, to, abilities)
  IN  IF ~canExecute(st, AbilitableManageProxy, sender) THEN Revert(st, NOT_AUTHORIZED)
      ELSE IF target # st.this THEN Revert(st, CALL_REVERTED)
      ELSE IF done.result # OK THEN Revert(st, done.result)
      ELSE done

\* The Abilitable part of a proxy: grantAbilities and revokeAbilities of the
\* proxy act on the proxy's own masks.
OfProxy(st, proxy, r) ==
  [result |-> r.result,
   st |-> [st EXCEPT !.proxyToAbility[proxy] = r.st.addressToAbility],
   events |-> r.events]

Proxy_grantAbilities(st, proxy, sender, target, abilities) ==
  OfProxy(st, proxy,
          grantAbilities([addressToAbility |-> st.proxyToAbility[proxy]], sender, target,
                         abilities))

Proxy_revokeAbilities(st, proxy, sender, target, abilities) ==
  OfProxy(st, proxy,
          revokeAbilities([addressToAbility |-> st.proxyToAbility[proxy]], sender, target,
                          abilities, FALSE))

\* ------------------------------------------------------ ActionsGateway
CREATE_ASSET == 1
TRANSFER_ASSET == 2
TRANSFER_VALUE == 3
SET_ABILITIES == 5
DESTROY_ASSET == 6

ActionCreateAsset(ledgerId, senderId, receiverId, id, imprint) ==
  [kind |-> CREATE_ASSET, ledgerId |-> ledgerId, senderId |-> senderId,
   receiverId |-> receiverId, id |-> id, imprint |-> imprint, value |-> 0, abilities |-> 0]

ActionTransferAsset(ledgerId, senderId, receiverId, id) ==
  [kind |-> TRANSFER_ASSET, ledgerId |-> ledgerId, senderId |-> senderId,
   receiverId |-> receiverId, id |-> id, imprint |-> NoDigest, value |-> 0, abilities |-> 0]

ActionTransferValue(ledgerId, senderId, receiverId, value) ==
  [kind |-> TRANSFER_VALUE, ledgerId |-> ledgerId, senderId |-> senderId,
   receiverId |-> receiverId, id |-> 0, imprint |-> NoDigest, value |-> value, abilities |-> 0]

ActionSetAbilities(ledgerId, senderId, receiverId, abilities) ==
  [kind |-> SET_ABILITIES, ledgerId |-> ledgerId, senderId |-> senderId,
   receiverId |-> receiverId, id |-> 0, imprint |-> NoDigest, value |-> 0,
   abilities |-> abilities]

ActionDestroyAsset(ledgerId, senderId, id) ==
  [kind |-> DESTROY_ASSET, ledgerId |-> ledgerId, senderId |-> senderId,
   receiverId |-> ZeroAddress, id |-> id, imprint |-> NoDigest, value |-> 0, abilities |-> 0]

\* ProxyTable: the proxy of each action kind, and the abilities of which the
\* proxy must hold one on the target ledger (0: none).
ProxyOf(kind) ==
  CASE kind = CREATE_ASSET -> XcertCreateProxy
    [] kind = TRANSFER_ASSET -> NFTokenSafeTransferProxy
    [] kind = TRANSFER_VALUE -> TokenTransferProxy
    [] kind = SET_ABILITIES -> AbilitableManageProxy
    [] kind = DESTROY_ASSET -> XcertBurnProxy

RequiredAbilities(kind) ==
  CASE kind = CREATE_ASSET -> ABILITY_CREATE_ASSET + ABILITY_ALLOW_CREATE_ASSET
    [] kind = SET_ABILITIES -> ABILITY_MANAGE_ABILITIES + ABILITY_ALLOW_MANAGE_ABILITIES
    [] OTHER -> 0

\* The digest of an order: the gateway's identity, the actions in order,
\* then the signers, the payer, the seed and the expiration.
orderClaim(this, order) ==
  <<this, order.actions, order.signersIds, order.payerId, order.seed, order.expiration>>

\* One action, carried out through the proxy of its kind.
performAction(st, action) ==
  LET required == RequiredAbilities(action.kind)
  IN  IF required # 0 /\ ~hasAbilities(st, ProxyOf(action.kind), required)
        THEN Revert(st, NOT_AUTHORIZED)
      ELSE CASE action.kind = CREATE_ASSET ->
                  XcertCreateProxy_create(st, ActionsGateway, action.ledgerId,
                                          action.receiverId, action.id, action.imprint)
             [] action.kind = TRANSFER_ASSET ->
                  execute(st, ActionsGateway, action.ledgerId, action.senderId,
                          action.receiverId, action.id)
             [] action.kind = TRANSFER_VALUE ->
                  TokenTransferProxy_execute(st, ActionsGateway, action.ledgerId,
                                             action.senderId, action.receiverId, action.value)
             [] action.kind = SET_ABILITIES ->
                  AbilitableManageProxy_set(st, ActionsGateway, action.ledgerId,
                                            action.receiverId, action.abilities)
             [] action.kind = DESTROY_ASSET ->
                  XcertBurnProxy_destroy(st, ActionsGateway, action.ledgerId, action.id)

\* The actions from the i-th on, one after the other; the first failure
\* ends the run.
RECURSIVE performActions(_, _, _)
performActions(st, actions, i) ==
  IF i > Len(actions) THEN [result |-> OK, st |-> st, events |-> <<>>]
  ELSE LET done == performAction(st, actions[i])
           rest == performActions(done.st, actions, i + 1)
       IN  IF done.result # OK THEN done
           ELSE IF rest.result # OK THEN rest
           ELSE [result |-> OK, st |-> rest.st, events |-> done.events \o rest.events]

\* ActionsGateway.perform: signed is the set of accounts whose valid
\* signature of the order's claim comes with the call.
performOrder(st, sender, order, signed) ==
  LET claim == orderClaim(ActionsGateway, order)
      done == performActions(st, order.actions, 1)
  IN  IF order.expiration < st.timestamp THEN Revert(st, CLAIM_EXPIRED)
      ELSE IF claim \in st.orderPerformed THEN Revert(st, CLAIM_PERFORMED)
      ELSE IF claim \in st.orderCancelled THEN Revert(st, CLAIM_CANCELED)
      ELSE IF ~(order.signersIds \subseteq signed) THEN Revert(st, INVALID_SIGNATURE)
      ELSE IF done.result # OK THEN Revert(st, done.result)
      ELSE [result |-> OK,
            st |-> [done.st EXCEPT !.orderPerformed = @ \cup {claim}],
            events |-> done.events]

\* ------------------------------------------------------------ environment
\* The authorization requests the environment builds.
Owners == {"alice", ZeroAddress}
Operators == {"bob"}
FeeValues == {0, 1}
FeeRecipients == {ZeroAddress}
Seeds == {1}
Expirations == {0, 1}
Times == 0..MaxTime

ClaimArgs ==
  [owner : Owners, operator : Operators, approved : BOOLEAN, feeToken : {FeeToken},
   feeValue : FeeValues, feeRecipient : FeeRecipients, seed : Seeds, expiration : Expirations]

DigestOn(this, c) ==
  generateClaim(this, c.owner, c.operator, c.approved, c.feeToken, c.feeValue,
                c.feeRecipient, c.seed, c.expiration)

Digest(c) == DigestOn(Self, c)

\* The same request with the approved flag flipped: another digest.
Tampered(c) == [c EXCEPT !.approved = ~c.approved]

\* Signatures a relayer may attach to request c: signed by the owner under
\* each kind, signed by another account, the owner's signature of another request, a signature
\* whose kind field does not match the prefix it was made with, and
\* a malformed one.
SignaturesFor(c) ==
  {Sign(k, kind, Digest(c)) : k \in Accounts \cap {c.owner}, kind \in SignatureKind}
    \cup {Sign(k, eth_sign, Digest(c)) : k \in Accounts \ {c.owner}}
    \cup {Sign(k, eth_sign, Digest(Tampered(c))) : k \in Accounts \cap {c.owner}}
    \cup {[Sign(k, no_prefix, Digest(c)) EXCEPT !.kind = eth_sign] : k \in Accounts \cap {c.owner}}
    \cup {Sign(ZeroAddress, no_prefix, Digest(c))}

CallSet(st, sender, c, signature) ==
  setApprovalForAllWithSignature(st, sender, c.owner, c.operator, c.approved, c.feeToken,
                                 c.feeValue, c.feeRecipient, c.seed, c.expiration, signature)

CallCancel(st, sender, c) ==
  cancelSetApprovalForAllWithSignature(st, sender, c.owner, c.operator, c.approved,
                                       c.feeToken, c.feeValue, c.feeRecipient, c.seed,
                                       c.expiration)

InitialBalance == [a \in Addresses |-> IF a = "alice" THEN 1 ELSE 0]

\* The account that deploys the ledger, and the abilities the deployment
\* gives it.
Deployer == "alice"
DeployerAbilities == ABILITY_MANAGE_ABILITIES

TokenIds == {1}
AllCapabilities == {MUTABLE, BURNABLE, PAUSABLE, REVOKABLE}
\* The capability sets a ledger is deployed with.
Deployments == {AllCapabilities, AllCapabilities \ {PAUSABLE}, {}}

InitAssets ==
  /\ idToOwner = [i \in TokenIds |-> ZeroAddress]
  /\ idToApproval = [i \in TokenIds |-> ZeroAddress]
  /\ ownerToNFTokenCount = [a \in Addresses |-> 0]
  /\ idToIntegrityDigest = [i \in TokenIds |-> NoDigest]
  /\ isPaused = FALSE
  /\ uri = <<"", "">>
  /\ addressToAbility = [a \in Addresses |-> IF a = Deployer THEN DeployerAbilities ELSE 0]

\* No gateway and no proxies are deployed.
NoDeployment == "none"

\* The deployment that orders run on: the asset ledger at Self, the value
\* ledger at FeeToken, the proxies and the gateway; the gateway may
\* execute on the proxies in authorized.
DeployedAddresses == Addresses \cup Contracts

Deployed(authorized) ==
  [idToOwner |-> [i \in TokenIds |-> ZeroAddress],
   idToApproval |-> [i \in TokenIds |-> ZeroAddress],
   ownerToNFTokenCount |-> [a \in DeployedAddresses |-> 0],
   idToIntegrityDigest |-> [i \in TokenIds |-> NoDigest],
   isPaused |-> FALSE,
   uri |-> <<"", "">>,
   supportedInterfaces |-> AllCapabilities,
   addressToAbility |-> [a \in DeployedAddresses |->
                           IF a = Deployer THEN DeployerAbilities ELSE 0],
   ownerToOperators |-> [o \in DeployedAddresses |-> [p \in DeployedAddresses |-> FALSE]],
   balances |-> [a \in DeployedAddresses |-> IF a \in Addresses THEN InitialBalance[a] ELSE 0],
   timestamp |-> 0,
   this |-> Self,
   contracts |-> Contracts,
   onERC721Received |-> [c \in {} |-> ""],
   proxyToAbility |-> [p \in Proxies |-> [a \in DeployedAddresses |->
                         IF a = ActionsGateway /\ p \in authorized
                           THEN ABILITY_TO_EXECUTE ELSE 0]],
   orderPerformed |-> {},
   orderCancelled |-> {}]

Init ==
  /\ InitAssets
  /\ supportedInterfaces = AllCapabilities
  /\ claimPerformed = {}
  /\ claimCancelled = {}
  /\ ownerToOperators = [o \in Addresses |-> [p \in Accounts |-> FALSE]]
  /\ balances = InitialBalance
  /\ now = 0
  /\ last = [op |-> "constructor", sender |-> ZeroAddress, result |-> OK, changed |-> FALSE,
             this |-> Self]
  /\ other = [claimPerformed |-> {}, claimCancelled |-> {},
              ownerToOperators |-> [o \in Addresses |-> [p \in Accounts |-> FALSE]]]
  /\ deployment = NoDeployment

\* The model stops admitting new digests at MaxClaims terminal ones.
WithinBounds(st) == Cardinality(st.claimPerformed \cup st.claimCancelled) <= MaxClaims

\* A transaction commits the state its handler returns (the state it
\* started from when it reverted) and its outcome is observed.
Commit(op, sender, r) ==
  /\ claimPerformed' = r.st.claimPerformed
  /\ claimCancelled' = r.st.claimCancelled
  /\ ownerToOperators' = r.st.ownerToOperators
  /\ balances' = r.st.balances
  /\ last' = [op |-> op, sender |-> sender, result |-> r.result, changed |-> r.st # State,
              this |-> Self]
  /\ UNCHANGED <<now, elsewhere>>

SetApprovalForAll ==
  \E sender \in Accounts \ Operators, operator \in Operators, approved \in BOOLEAN :
    LET r == setApprovalForAll(State, sender, operator, approved)
    IN  /\ WithinBounds(r.st)
        /\ Commit("setApprovalForAll", sender, r)

SetApprovalForAllWithSignature ==
  \E sender \in Accounts, c \in ClaimArgs :
    \E signature \in SignaturesFor(c) :
      LET r == CallSet(State, sender, c, signature)
      IN  /\ WithinBounds(r.st)
          /\ Commit("setApprovalForAllWithSignature", sender, r)

CancelSetApprovalForAllWithSignature ==
  \E sender \in Accounts, c \in ClaimArgs :
    LET r == CallCancel(State, sender, c)
    IN  /\ WithinBounds(r.st)
        /\ Commit("cancelSetApprovalForAllWithSignature", sender, r)

\* A holder moves fee tokens (the token is a contract of its own: the
\* ledger's state is not touched).
TokenTransfer ==
  \E sender \in Accounts, to \in Accounts, value \in FeeValues \ {0} :
    LET t == transfer(balances, sender, to, value)
    IN  /\ to # sender
        /\ t.ok
        /\ balances' = t.balances
        /\ last' = [op |-> "transfer", sender |-> sender, result |-> OK, changed |-> TRUE,
                    this |-> FeeToken]
        /\ UNCHANGED <<claimPerformed, claimCancelled, ownerToOperators, now, elsewhere>>

\* Time passes between transactions.
Tick ==
  /\ now < MaxTime
  /\ now' = now + 1
  /\ UNCHANGED <<ledgerVars, last, elsewhere>>

Next ==
  \/ SetApprovalForAll
  \/ SetApprovalForAllWithSignature
  \/ CancelSetApprovalForAllWithSignature
  \/ TokenTransfer
  \/ Tick

Spec == Init /\ [][Next]_vars

\* The same ledger, as the specification of the properties of one call
\* (what a failing call leaves behind).
SpecCalls == Init /\ [][Next]_vars

TypeOK ==
  /\ now \in Times
  /\ \A a \in Addresses : balances[a] \in Nat

\* ------------------------------------------- abilities and direct mutations
Receivers == {"bob", ZeroAddress}
IntegrityDigests == {"d1"}
Uris == {<<"https://a/", ".json">>}
\* The masks the environment grants and revokes, and the accounts it
\* grants to and revokes from.
GrantMasks ==
  {ABILITY_CREATE_ASSET, ABILITY_REVOKE_ASSET, ABILITY_TOGGLE_TRANSFERS,
   ABILITY_UPDATE_ASSET_URI_INTEGRITY_DIGEST, ABILITY_UPDATE_URI,
   ABILITY_ALLOW_CREATE_ASSET, ABILITY_ALLOW_UPDATE_ASSET,
   ABILITY_CREATE_ASSET + ABILITY_UPDATE_ASSET_URI_INTEGRITY_DIGEST}
GrantTargets == Accounts \ {Deployer}

InitLedger ==
  /\ InitAssets
  /\ supportedInterfaces \in Deployments
  /\ claimPerformed = {}
  /\ claimCancelled = {}
  /\ ownerToOperators = [o \in Addresses |-> [p \in Accounts |-> FALSE]]
  /\ balances = InitialBalance
  /\ now = 0
  /\ last = [op |-> "constructor", sender |-> Deployer, result |-> OK, changed |-> FALSE,
             this |-> Self]
  /\ other = [claimPerformed |-> {}, claimCancelled |-> {},
              ownerToOperators |-> [o \in Addresses |-> [p \in Accounts |-> FALSE]]]
  /\ deployment = NoDeployment

AbilitiesWithinBounds(st) ==
  \A a \in GrantTargets : BitCount(st.addressToAbility[a]) <= MaxAbilities

\* A transaction on the asset side commits the storage its handler returns.
CommitLedger(op, sender, r) ==
  /\ idToOwner' = r.st.idToOwner
  /\ idToApproval' = r.st.idToApproval
  /\ ownerToNFTokenCount' = r.st.ownerToNFTokenCount
  /\ idToIntegrityDigest' = r.st.idToIntegrityDigest
  /\ isPaused' = r.st.isPaused
  /\ uri' = r.st.uri
  /\ supportedInterfaces' = r.st.supportedInterfaces
  /\ addressToAbility' = r.st.addressToAbility
  /\ ownerToOperators' = r.st.ownerToOperators
  /\ last' = [op |-> op, sender |-> sender, result |-> r.result,
              changed |-> r.st # LedgerState, this |-> Self]

GrantAbilities ==
  \E sender \in Accounts, target \in GrantTargets, abilities \in GrantMasks :
    LET r == grantAbilities(LedgerState, sender, target, abilities)
    IN  /\ AbilitiesWithinBounds(r.st)
        /\ CommitLedger("grantAbilities", sender, r)
        /\ UNCHANGED <<claimPerformed, claimCancelled, balances, now, other, deployment>>

RevokeAbilities ==
  \E sender \in Accounts, target \in GrantTargets, abilities \in GrantMasks :
    \E allowSuperRevoke \in BOOLEAN :
      LET r == revokeAbilities(LedgerState, sender, target, abilities, allowSuperRevoke)
      IN  /\ CommitLedger("revokeAbilities", sender, r)
          /\ UNCHANGED <<claimPerformed, claimCancelled, balances, now, other, deployment>>

Create ==
  \E sender \in Accounts, to \in Receivers, id \in TokenIds, digest \in IntegrityDigests :
    LET r == create(LedgerState, sender, to, id, digest)
    IN  /\ CommitLedger("create", sender, r)
        /\ UNCHANGED <<claimPerformed, claimCancelled, balances, now, other, deployment>>

SetUri ==
  \E sender \in Accounts, u \in Uris :
    LET r == setUri(LedgerState, sender, u[1], u[2])
    IN  /\ CommitLedger("setUri", sender, r)
        /\ UNCHANGED <<claimPerformed, claimCancelled, balances, now, other, deployment>>

RevokeAsset ==
  \E sender \in Accounts, id \in TokenIds :
    LET r == revoke(LedgerState, sender, id)
    IN  /\ CommitLedger("revoke", sender, r)
        /\ UNCHANGED <<claimPerformed, claimCancelled, balances, now, other, deployment>>

SetPause ==
  \E sender \in Accounts, paused \in BOOLEAN :
    LET r == setPause(LedgerState, sender, paused)
    IN  /\ CommitLedger("setPause", sender, r)
        /\ UNCHANGED <<claimPerformed, claimCancelled, balances, now, other, deployment>>

UpdateTokenURIIntegrityDigest ==
  \E sender \in Accounts, id \in TokenIds, digest \in IntegrityDigests :
    LET r == updateTokenURIIntegrityDigest(LedgerState, sender, id, digest)
    IN  /\ CommitLedger("updateTokenURIIntegrityDigest", sender, r)
        /\ UNCHANGED <<claimPerformed, claimCancelled, balances, now, other, deployment>>

Destroy ==
  \E sender \in Accounts, id \in TokenIds :
    LET r == destroy(LedgerState, sender, id)
    IN  /\ CommitLedger("destroy", sender, r)
        /\ UNCHANGED <<claimPerformed, claimCancelled, balances, now, other, deployment>>

NextLedger ==
  \/ GrantAbilities
  \/ RevokeAbilities
  \/ Create
  \/ SetUri
  \/ RevokeAsset
  \/ SetPause
  \/ UpdateTokenURIIntegrityDigest
  \/ Destroy

SpecLedger == InitLedger /\ [][NextLedger]_vars

\* ------------------------------------------- abilities through the client
\* The abilities the client's callers list, and the lists they pass: of
\* none, one or two abilities, the same one twice included.
ListedAbilities ==
  {ABILITY_MANAGE_ABILITIES, ABILITY_CREATE_ASSET, ABILITY_UPDATE_ASSET_URI_INTEGRITY_DIGEST}

AbilityLists ==
  {<<>>} \cup {<<a>> : a \in ListedAbilities}
         \cup {<<a, b>> : a \in ListedAbilities, b \in ListedAbilities}

\* The masks sent to the contract without the client.
RevokedMasks ==
  {ABILITY_MANAGE_ABILITIES, ABILITY_CREATE_ASSET,
   ABILITY_MANAGE_ABILITIES + ABILITY_CREATE_ASSET}

AccountAbilitiesWithinBounds(st) ==
  \A a \in Accounts : BitCount(st.addressToAbility[a]) <= MaxAbilities

ClientGrantAbilities ==
  \E sender \in Accounts, accountId \in Accounts, abilities \in AbilityLists :
    LET r == AssetLedger_grantAbilities(LedgerState, sender, accountId, abilities)
    IN  /\ AccountAbilitiesWithinBounds(r.st)
        /\ CommitLedger("AssetLedger.grantAbilities", sender, r)
        /\ UNCHANGED <<claimPerformed, claimCancelled, balances, now, other, deployment>>

ClientRevokeAbilities ==
  \E sender \in Accounts, accountId \in Accounts, abilities \in AbilityLists :
    LET r == AssetLedger_revokeAbilities(LedgerState, sender, accountId, abilities)
    IN  /\ CommitLedger("AssetLedger.revokeAbilities", sender, r)
        /\ UNCHANGED <<claimPerformed, claimCancelled, balances, now, other, deployment>>

DirectRevokeAbilities ==
  \E sender \in Accounts, target \in Accounts, abilities \in RevokedMasks :
    \E allowSuperRevoke \in BOOLEAN :
      LET r == revokeAbilities(LedgerState, sender, target, abilities, allowSuperRevoke)
      IN  /\ CommitLedger("revokeAbilities", sender, r)
          /\ UNCHANGED <<claimPerformed, claimCancelled, balances, now, other, deployment>>

NextAbilities ==
  \/ ClientGrantAbilities
  \/ ClientRevokeAbilities
  \/ DirectRevokeAbilities

SpecAbilities == InitLedger /\ [][NextAbilities]_vars

\* ------------------------------------------- two deployments, two seeds
\* Requests that differ only in their seed, submitted to either deployment.
BindingSeeds == {1, 2}

BindingArgs ==
  [owner : {"alice"}, operator : {"bob"}, approved : {TRUE}, feeToken : {FeeToken},
   feeValue : {0}, feeRecipient : {ZeroAddress}, seed : BindingSeeds, expiration : {MaxTime}]

\* A kind field outside the enum, as raw calldata can carry it.
UnknownKinds == {3}

\* The owner's signatures over a request's digest with an unknown kind.
UnknownKindSignatures(this, c) ==
  {[Sign(c.owner, made, DigestOn(this, c)) EXCEPT !.kind = k] :
     made \in {eth_sign, no_prefix}, k \in UnknownKinds}

\* What a relayer may attach: the owner's signature of any of the requests
\* for either deployment, and signatures with an unknown kind.
BindingSignatures(this, c) ==
  {Sign(c2.owner, eth_sign, DigestOn(i, c2)) : i \in Instances, c2 \in BindingArgs}
    \cup UnknownKindSignatures(this, c)

StateOf(this) == IF this = Self THEN State ELSE OtherState

\* The transaction is committed to the storage of the deployment it was
\* sent to; the fee token is the same contract for both.
CommitOn(this, op, sender, r) ==
  /\ IF this = Self
       THEN /\ claimPerformed' = r.st.claimPerformed
            /\ claimCancelled' = r.st.claimCancelled
            /\ ownerToOperators' = r.st.ownerToOperators
            /\ UNCHANGED other
       ELSE /\ other' = [claimPerformed |-> r.st.claimPerformed,
                         claimCancelled |-> r.st.claimCancelled,
                         ownerToOperators |-> r.st.ownerToOperators]
            /\ UNCHANGED <<claimPerformed, claimCancelled, ownerToOperators>>
  /\ balances' = r.st.balances
  /\ last' = [op |-> op, sender |-> sender, result |-> r.result,
              changed |-> r.st # StateOf(this), this |-> this]

SetApprovalForAllWithSignatureOn ==
  \E this \in Instances, sender \in Accounts, c \in BindingArgs :
    \E signature \in BindingSignatures(this, c) :
      LET r == CallSet(StateOf(this), sender, c, signature)
      IN  /\ CommitOn(this, "setApprovalForAllWithSignature", sender, r)
          /\ UNCHANGED <<now, assetVars, deployment>>

CancelSetApprovalForAllWithSignatureOn ==
  \E this \in Instances, sender \in Accounts, c \in BindingArgs :
    LET r == CallCancel(StateOf(this), sender, c)
    IN  /\ CommitOn(this, "cancelSetApprovalForAllWithSignature", sender, r)
        /\ UNCHANGED <<now, assetVars, deployment>>

NextBinding ==
  \/ SetApprovalForAllWithSignatureOn
  \/ CancelSetApprovalForAllWithSignatureOn

SpecBinding == Init /\ [][NextBinding]_vars

\* ------------------------------------------------------------- orders
\* Whoever submits the orders.
Relayer == "bob"

\* The actions the environment puts into orders.
OrderActions ==
  {ActionCreateAsset(Self, "alice", "alice", 1, "d1"),
   ActionTransferAsset(Self, "alice", "bob", 1),
   ActionTransferAsset(Self, "alice", XcertBurnProxy, 1),
   ActionTransferValue(FeeToken, "alice", "bob", 1),
   ActionTransferValue(FeeToken, "bob", "alice", 1),
   ActionSetAbilities(Self, "alice", "bob", ABILITY_TOGGLE_TRANSFERS),
   ActionDestroyAsset(Self, "alice", 1)}

ActionsOrder(actions) ==
  [actions |-> actions,
   signersIds |-> {actions[i].senderId : i \in DOMAIN actions},
   payerId |-> Relayer,
   seed |-> 1,
   expiration |-> 0]

Orders ==
  {ActionsOrder(<<a>>) : a \in OrderActions}
    \cup {ActionsOrder(<<a, b>>) : a \in OrderActions, b \in OrderActions}

\* What the ledger's manager grants to the proxies, and the proxies an
\* owner makes operator of their tokens.
ProxyGrants ==
  {<<XcertCreateProxy, ABILITY_CREATE_ASSET>>,
   <<XcertCreateProxy, ABILITY_ALLOW_CREATE_ASSET>>,
   <<AbilitableManageProxy, ABILITY_MANAGE_ABILITIES>>}
OperatorProxies == {NFTokenSafeTransferProxy, XcertBurnProxy}

\* The gateway is deployed with the right to execute on every proxy, or on
\* every proxy but the asset transfer proxy.
ProxyDeployments == {Proxies, Proxies \ {NFTokenSafeTransferProxy}}

InitOrders ==
  /\ InitAssets
  /\ supportedInterfaces = AllCapabilities
  /\ claimPerformed = {}
  /\ claimCancelled = {}
  /\ ownerToOperators = [o \in Addresses |-> [p \in Accounts |-> FALSE]]
  /\ balances = InitialBalance
  /\ now = 0
  /\ last = [op |-> "constructor", sender |-> Deployer, result |-> OK, changed |-> FALSE,
             this |-> ActionsGateway]
  /\ other = [claimPerformed |-> {}, claimCancelled |-> {},
              ownerToOperators |-> [o \in Addresses |-> [p \in Accounts |-> FALSE]]]
  /\ \E authorized \in ProxyDeployments, t \in Times :
       deployment = [Deployed(authorized) EXCEPT !.timestamp = t]

OrdersWithinBounds(st) ==
  /\ Cardinality(st.orderPerformed \cup st.orderCancelled) <= MaxClaims
  /\ \A p \in Proxies : BitCount(st.addressToAbility[p]) <= MaxAbilities

CommitOrders(op, sender, this, r) ==
  /\ deployment' = r.st
  /\ last' = [op |-> op, sender |-> sender, result |-> r.result,
              changed |-> r.st # deployment, this |-> this]

PerformOrder ==
  \E order \in Orders, signed \in BOOLEAN :
    LET r == performOrder(deployment, Relayer, order, IF signed THEN order.signersIds ELSE {})
    IN  /\ OrdersWithinBounds(r.st)
        /\ CommitOrders("perform", Relayer, ActionsGateway, r)
        /\ UNCHANGED <<ledgerVars, now, other, assetVars>>

GrantToProxy ==
  \E g \in ProxyGrants :
    LET r == grantAbilities(deployment, Deployer, g[1], g[2])
    IN  /\ OrdersWithinBounds(r.st)
        /\ CommitOrders("grantAbilities", Deployer, Self, r)
        /\ UNCHANGED <<ledgerVars, now, other, assetVars>>

ApproveProxy ==
  \E operator \in OperatorProxies, approved \in BOOLEAN :
    LET r == setApprovalForAll(deployment, "alice", operator, approved)
    IN  /\ CommitOrders("setApprovalForAll", "alice", Self, r)
        /\ UNCHANGED <<ledgerVars, now, other, assetVars>>

NextOrders ==
  \/ PerformOrder
  \/ GrantToProxy
  \/ ApproveProxy

SpecOrders == InitOrders /\ [][NextOrders]_vars

\* ------------------------------------------------------------ transfers
\* A ledger with the safe-transfer proxy, which executes for the gateway,
\* and two contracts that answer onERC721Received: one with the magic value,
\* one with another value.
NFTokenReceiver == "nftokenReceiver"
OtherReceiver == "otherReceiver"
TokenAddresses == Addresses \cup {NFTokenSafeTransferProxy, NFTokenReceiver, OtherReceiver}

TokenLedger(capabilities) ==
  [idToOwner |-> [i \in TokenIds |-> ZeroAddress],
   idToApproval |-> [i \in TokenIds |-> ZeroAddress],
   ownerToNFTokenCount |-> [a \in TokenAddresses |-> 0],
   idToIntegrityDigest |-> [i \in TokenIds |-> NoDigest],
   isPaused |-> FALSE,
   uri |-> <<"", "">>,
   supportedInterfaces |-> capabilities,
   addressToAbility |-> [a \in TokenAddresses |->
                           IF a = Deployer THEN DeployerAbilities ELSE 0],
   ownerToOperators |-> [o \in TokenAddresses |-> [p \in TokenAddresses |-> FALSE]],
   this |-> Self,
   contracts |-> {NFTokenSafeTransferProxy, NFTokenReceiver, OtherReceiver},
   onERC721Received |-> [c \in {NFTokenReceiver, OtherReceiver} |->
                           IF c = NFTokenReceiver THEN MAGIC_ON_ERC721_RECEIVED
                           ELSE "0x00000000"],
   proxyToAbility |-> [p \in {NFTokenSafeTransferProxy} |->
                         [a \in TokenAddresses \cup {ActionsGateway} |->
                            IF a = ActionsGateway THEN ABILITY_TO_EXECUTE ELSE 0]]]

IssuerMasks == {ABILITY_CREATE_ASSET, ABILITY_TOGGLE_TRANSFERS, ABILITY_REVOKE_ASSET}
Approved == {"bob", NFTokenSafeTransferProxy, ZeroAddress}
TokenOperators == {"bob", NFTokenSafeTransferProxy}
TransferSenders == Accounts
TransferFroms == Addresses
TransferTos == Addresses \cup {NFTokenReceiver, OtherReceiver, NFTokenSafeTransferProxy}

InitTokens ==
  /\ InitAssets
  /\ supportedInterfaces = AllCapabilities
  /\ claimPerformed = {}
  /\ claimCancelled = {}
  /\ ownerToOperators = [o \in Addresses |-> [p \in Accounts |-> FALSE]]
  /\ balances = InitialBalance
  /\ now = 0
  /\ last = [op |-> "constructor", sender |-> Deployer, result |-> OK, changed |-> FALSE,
             this |-> Self]
  /\ other = [claimPerformed |-> {}, claimCancelled |-> {},
              ownerToOperators |-> [o \in Addresses |-> [p \in Accounts |-> FALSE]]]
  /\ deployment \in {TokenLedger(capabilities) : capabilities \in Deployments}

GrantToIssuer ==
  \E abilities \in IssuerMasks :
    LET r == grantAbilities(deployment, Deployer, Deployer, abilities)
    IN  /\ CommitOrders("grantAbilities", Deployer, Self, r)
        /\ UNCHANGED <<ledgerVars, now, other, assetVars>>

CreateToken ==
  \E id \in TokenIds, digest \in IntegrityDigests :
    LET r == create(deployment, Deployer, Deployer, id, digest)
    IN  /\ CommitOrders("create", Deployer, Self, r)
        /\ UNCHANGED <<ledgerVars, now, other, assetVars>>

Approve ==
  \E sender \in Accounts, approved \in Approved, id \in TokenIds :
    LET r == approve(deployment, sender, approved, id)
    IN  /\ CommitOrders("approve", sender, Self, r)
        /\ UNCHANGED <<ledgerVars, now, other, assetVars>>

SetOperator ==
  \E sender \in Accounts, operator \in TokenOperators, approved \in BOOLEAN :
    LET r == setApprovalForAll(deployment, sender, operator, approved)
    IN  /\ CommitOrders("setApprovalForAll", sender, Self, r)
        /\ UNCHANGED <<ledgerVars, now, other, assetVars>>

TransferFrom ==
  \E sender \in TransferSenders, from \in TransferFroms, to \in TransferTos, id \in TokenIds :
    LET r == Xcert_transferFrom(deployment, sender, from, to, id)
    IN  /\ CommitOrders("transferFrom", sender, Self, r)
        /\ UNCHANGED <<ledgerVars, now, other, assetVars>>

SafeTransferFrom ==
  \E sender \in TransferSenders, from \in TransferFroms, to \in TransferTos, id \in TokenIds :
    LET r == safeTransferFrom(deployment, sender, from, to, id)
    IN  /\ CommitOrders("safeTransferFrom", sender, Self, r)
        /\ UNCHANGED <<ledgerVars, now, other, assetVars>>

ExecuteTransfer ==
  \E from \in TransferFroms, to \in TransferTos, id \in TokenIds :
    LET r == execute(deployment, ActionsGateway, Self, from, to, id)
    IN  /\ CommitOrders("execute", ActionsGateway, NFTokenSafeTransferProxy, r)
        /\ UNCHANGED <<ledgerVars, now, other, assetVars>>

PauseTransfers ==
  \E paused \in BOOLEAN :
    LET r == setPause(deployment, Deployer, paused)
    IN  /\ CommitOrders("setPause", Deployer, Self, r)
        /\ UNCHANGED <<ledgerVars, now, other, assetVars>>

DestroyToken ==
  \E sender \in Accounts, id \in TokenIds :
    LET r == destroy(deployment, sender, id)
    IN  /\ CommitOrders("destroy", sender, Self, r)
        /\ UNCHANGED <<ledgerVars, now, other, assetVars>>

RevokeToken ==
  \E id \in TokenIds :
    LET r == revoke(deployment, Deployer, id)
    IN  /\ CommitOrders("revoke", Deployer, Self, r)
        /\ UNCHANGED <<ledgerVars, now, other, assetVars>>

NextTokens ==
  \/ DestroyToken
  \/ RevokeToken
  \/ GrantToIssuer
  \/ CreateToken
  \/ Approve
  \/ SetOperator
  \/ TransferFrom
  \/ SafeTransferFrom
  \/ ExecuteTransfer
  \/ PauseTransfers

SpecTokens == InitTokens /\ [][NextTokens]_vars

\* The same ledger, named for the properties of its token bookkeeping.
SpecCounts == InitTokens /\ [][NextTokens]_vars

\* ------------------------------------------------------ unowned tokens
\* The whole Xcert: the token bookkeeping together with the signed operator
\* approvals, on one storage.
XcertLedger ==
  TokenLedger(AllCapabilities)
    @@ [claimPerformed |-> {}, claimCancelled |-> {}, balances |-> InitialBalance,
        timestamp |-> 0]

InitXcert ==
  /\ InitAssets
  /\ supportedInterfaces = AllCapabilities
  /\ claimPerformed = {}
  /\ claimCancelled = {}
  /\ ownerToOperators = [o \in Addresses |-> [p \in Accounts |-> FALSE]]
  /\ balances = InitialBalance
  /\ now = 0
  /\ last = [op |-> "constructor", sender |-> Deployer, result |-> OK, changed |-> FALSE,
             this |-> Self]
  /\ other = [claimPerformed |-> {}, claimCancelled |-> {},
              ownerToOperators |-> [o \in Addresses |-> [p \in Accounts |-> FALSE]]]
  /\ deployment = XcertLedger

SignedApproval ==
  \E sender \in Accounts, c \in ClaimArgs :
    \E signature \in SignaturesFor(c) :
      LET r == CallSet(deployment, sender, c, signature)
      IN  /\ WithinBounds(r.st)
          /\ CommitOrders("setApprovalForAllWithSignature", sender, Self, r)
          /\ UNCHANGED <<ledgerVars, now, other, assetVars>>

NextXcert ==
  \/ SignedApproval
  \/ CreateToken
  \/ Approve
  \/ DestroyToken
  \/ RevokeToken

SpecXcert == InitXcert /\ [][NextXcert]_vars

\* ------------------------------------------------------ fee recipients
\* Requests of alice that name no fee recipient, alice herself, or bob.
FeeArgs ==
  [owner : {"alice"}, operator : Operators, approved : BOOLEAN, feeToken : {FeeToken},
   feeValue : FeeValues, feeRecipient : Addresses, seed : Seeds, expiration : Expirations]

SetApprovalWithFee ==
  \E sender \in Accounts, c \in FeeArgs :
    \E signature \in SignaturesFor(c) :
      LET r == CallSet(State, sender, c, signature)
      IN  /\ WithinBounds(r.st)
          /\ Commit("setApprovalForAllWithSignature", sender, r)

NextFees ==
  \/ SetApprovalWithFee
  \/ TokenTransfer
  \/ Tick

SpecFees == Init /\ [][NextFees]_vars

\* ------------------------------------------------- the receiver's callback
\* safeTransferFrom to a contract is two steps: _safeTransferFrom calls
\* onERC721Received on the receiver (nf-token-metadata.sol:447-455), and
\* when the receiver has answered it goes on to _transferFrom (457). While
\* the receiver runs, last.op is "onERC721Received" and last holds the
\* arguments of the pending transfer; no other transaction starts.
ReceiverRuns == last.op = "onERC721Received"

CommitCallback(op, sender, from, to, id, r) ==
  /\ deployment' = r.st
  /\ last' = [op |-> op, sender |-> sender, result |-> r.result,
              changed |-> r.st # deployment, this |-> Self,
              from |-> from, to |-> to, id |-> id]

InitCallback ==
  /\ InitAssets
  /\ supportedInterfaces = AllCapabilities
  /\ claimPerformed = {}
  /\ claimCancelled = {}
  /\ ownerToOperators = [o \in Addresses |-> [p \in Accounts |-> FALSE]]
  /\ balances = InitialBalance
  /\ now = 0
  /\ last = [op |-> "constructor", sender |-> Deployer, result |-> OK, changed |-> FALSE,
             this |-> Self, from |-> ZeroAddress, to |-> ZeroAddress, id |-> 1]
  /\ other = [claimPerformed |-> {}, claimCancelled |-> {},
              ownerToOperators |-> [o \in Addresses |-> [p \in Accounts |-> FALSE]]]
  /\ deployment = TokenLedger(AllCapabilities)

GrantCreate ==
  LET r == grantAbilities(deployment, Deployer, Deployer, ABILITY_CREATE_ASSET)
  IN  /\ ~ReceiverRuns
      /\ CommitCallback("grantAbilities", Deployer, ZeroAddress, Deployer, 1, r)
      /\ UNCHANGED <<ledgerVars, now, other, assetVars>>

CreateFor ==
  \E to \in Accounts, id \in TokenIds, digest \in IntegrityDigests :
    LET r == create(deployment, Deployer, to, id, digest)
    IN  /\ ~ReceiverRuns
        /\ CommitCallback("create", Deployer, ZeroAddress, to, id, r)
        /\ UNCHANGED <<ledgerVars, now, other, assetVars>>

ApproveFor ==
  \E sender \in Accounts, approved \in Accounts, id \in TokenIds :
    LET r == approve(deployment, sender, approved, id)
    IN  /\ ~ReceiverRuns
        /\ CommitCallback("approve", sender, ZeroAddress, approved, id, r)
        /\ UNCHANGED <<ledgerVars, now, other, assetVars>>

\* The receiver is not a contract: no call, the transfer is one step.
SafeTransferToAccount ==
  \E sender \in Accounts, from \in Accounts, to \in Addresses, id \in TokenIds :
    LET r == safeTransferFrom(deployment, sender, from, to, id)
    IN  /\ ~ReceiverRuns
        /\ ~isDeployedContract(deployment, to)
        /\ CommitCallback("safeTransferFrom", sender, from, to, id, r)
        /\ UNCHANGED <<ledgerVars, now, other, assetVars>>

\* The receiver is a contract: _safeTransferFrom calls it first.
CallReceiver ==
  \E sender \in Accounts, from \in Accounts, to \in TransferTos, id \in TokenIds :
    /\ ~ReceiverRuns
    /\ isDeployedContract(deployment, to)
    /\ last' = [op |-> "onERC721Received", sender |-> sender, result |-> OK,
                changed |-> FALSE, this |-> to, from |-> from, to |-> to, id |-> id]
    /\ UNCHANGED <<deployment, ledgerVars, now, other, assetVars>>

\* The receiver has answered (or reverted): the rest of _safeTransferFrom.
ReceiverReturns ==
  LET r == safeTransferFrom(deployment, last.sender, last.from, last.to, last.id)
  IN  /\ ReceiverRuns
      /\ CommitCallback("safeTransferFrom", last.sender, last.from, last.to, last.id, r)
      /\ UNCHANGED <<ledgerVars, now, other, assetVars>>

NextCallback ==
  \/ GrantCreate
  \/ CreateFor
  \/ ApproveFor
  \/ SafeTransferToAccount
  \/ CallReceiver
  \/ ReceiverReturns

SpecCallback == InitCallback /\ [][NextCallback]_vars

\* ------------------------------------------------------- proxy callers
\* A ledger and three proxies (transfer, burn, manage), all deployed by
\* Deployer, who holds MANAGE_ABILITIES on each of them.
CalledProxies == {NFTokenSafeTransferProxy, XcertBurnProxy, AbilitableManageProxy}
ProxyAddresses == Addresses \cup CalledProxies

ProxiedLedger ==
  [TokenLedger(AllCapabilities) EXCEPT
     !.ownerToNFTokenCount = [a \in ProxyAddresses |-> 0],
     !.addressToAbility = [a \in ProxyAddresses |->
                             IF a = Deployer THEN DeployerAbilities ELSE 0],
     !.ownerToOperators = [o \in ProxyAddresses |-> [q \in ProxyAddresses |-> FALSE]],
     !.contracts = CalledProxies,
     !.onERC721Received = [c \in {} |-> ""],
     !.proxyToAbility = [q \in CalledProxies |-> [a \in ProxyAddresses |->
                           IF a = Deployer THEN ABILITY_MANAGE_ABILITIES ELSE 0]]]

Executor == "bob"
LedgerGrants ==
  {<<Deployer, ABILITY_CREATE_ASSET>>, <<AbilitableManageProxy, ABILITY_MANAGE_ABILITIES>>}
SetTargets == {Executor, AbilitableManageProxy}
SetMasks == {0, ABILITY_TOGGLE_TRANSFERS}

InitProxies ==
  /\ InitAssets
  /\ supportedInterfaces = AllCapabilities
  /\ claimPerformed = {}
  /\ claimCancelled = {}
  /\ ownerToOperators = [o \in Addresses |-> [p \in Accounts |-> FALSE]]
  /\ balances = InitialBalance
  /\ now = 0
  /\ last = [op |-> "constructor", sender |-> Deployer, result |-> OK, changed |-> FALSE,
             this |-> Self]
  /\ other = [claimPerformed |-> {}, claimCancelled |-> {},
              ownerToOperators |-> [o \in Addresses |-> [p \in Accounts |-> FALSE]]]
  /\ deployment = ProxiedLedger

GrantExecute ==
  \E proxy \in CalledProxies :
    LET r == Proxy_grantAbilities(deployment, proxy, Deployer, Executor, ABILITY_TO_EXECUTE)
    IN  /\ CommitOrders("grantAbilities", Deployer, proxy, r)
        /\ UNCHANGED <<ledgerVars, now, other, assetVars>>

RevokeExecute ==
  \E proxy \in CalledProxies :
    LET r == Proxy_revokeAbilities(deployment, proxy, Deployer, Executor, ABILITY_TO_EXECUTE)
    IN  /\ CommitOrders("revokeAbilities", Deployer, proxy, r)
        /\ UNCHANGED <<ledgerVars, now, other, assetVars>>

GrantOnLedger ==
  \E g \in LedgerGrants :
    LET r == grantAbilities(deployment, Deployer, g[1], g[2])
    IN  /\ CommitOrders("grantAbilities", Deployer, Self, r)
        /\ UNCHANGED <<ledgerVars, now, other, assetVars>>

CreateForProxies ==
  \E id \in TokenIds, digest \in IntegrityDigests :
    LET r == create(deployment, Deployer, Deployer, id, digest)
    IN  /\ CommitOrders("create", Deployer, Self, r)
        /\ UNCHANGED <<ledgerVars, now, other, assetVars>>

PermitProxy ==
  \E sender \in Accounts, operator \in {NFTokenSafeTransferProxy, XcertBurnProxy} :
    \E approved \in BOOLEAN :
      LET r == setApprovalForAll(deployment, sender, operator, approved)
      IN  /\ CommitOrders("setApprovalForAll", sender, Self, r)
          /\ UNCHANGED <<ledgerVars, now, other, assetVars>>

CallExecute ==
  \E sender \in Accounts, from \in Accounts, to \in Accounts, id \in TokenIds :
    LET r == execute(deployment, sender, Self, from, to, id)
    IN  /\ CommitOrders("NFTokenSafeTransferProxy.execute", sender, NFTokenSafeTransferProxy, r)
        /\ UNCHANGED <<ledgerVars, now, other, assetVars>>

CallDestroy ==
  \E sender \in Accounts, id \in TokenIds :
    LET r == XcertBurnProxy_destroy(deployment, sender, Self, id)
    IN  /\ CommitOrders("XcertBurnProxy.destroy", sender, XcertBurnProxy, r)
        /\ UNCHANGED <<ledgerVars, now, other, assetVars>>

CallManageSet ==
  \E sender \in Accounts, to \in SetTargets, abilities \in SetMasks :
    LET r == AbilitableManageProxy_set(deployment, sender, Self, to, abilities)
    IN  /\ CommitOrders("AbilitableManageProxy.set", sender, AbilitableManageProxy, r)
        /\ UNCHANGED <<ledgerVars, now, other, assetVars>>

NextProxies ==
  \/ GrantExecute
  \/ RevokeExecute
  \/ GrantOnLedger
  \/ CreateForProxies
  \/ PermitProxy
  \/ CallExecute
  \/ CallDestroy
  \/ CallManageSet

SpecProxies == InitProxies /\ [][NextProxies]_vars

\* --------------------------------------------------------- value ledger
\* The value ledger (ERC-20 token) at FeeToken: the allowance each account
\* has given to each spender.
NOT_ENOUGH_ALLOWANCE_RESET == "approve-without-reset"

Token_Approval(owner, spender, value) ==
  [event |-> "Approval", owner |-> owner, spender |-> spender, value |-> value]

\* Variant of approve that writes the allowance whatever it was.
Token_approve_Overwrites(st, sender, spender, value) ==
  [result |-> OK,
   st |-> [st EXCEPT !.tokenAllowance[sender][spender] = value],
   events |-> <<Token_Approval(sender, spender, value)>>]

\* approve(_spender, _value) of the token, which approveValue and
\* approveAccount of the client send.
Token_approve(st, sender, spender, value) ==
  IF ~(value = 0 \/ st.tokenAllowance[sender][spender] = 0)
    THEN Revert(st, NOT_ENOUGH_ALLOWANCE_RESET)
  ELSE [result |-> OK,
        st |-> [st EXCEPT !.tokenAllowance[sender][spender] = value],
        events |-> <<Token_Approval(sender, spender, value)>>]

ApprovedValues == 0 .. MaxValue

ValueLedger ==
  [tokenAllowance |-> [o \in Accounts |-> [p \in Accounts |-> 0]], this |-> FeeToken]

InitValue ==
  /\ InitAssets
  /\ supportedInterfaces = AllCapabilities
  /\ claimPerformed = {}
  /\ claimCancelled = {}
  /\ ownerToOperators = [o \in Addresses |-> [p \in Accounts |-> FALSE]]
  /\ balances = InitialBalance
  /\ now = 0
  /\ last = [op |-> "constructor", sender |-> Deployer, result |-> OK, changed |-> FALSE,
             this |-> FeeToken]
  /\ other = [claimPerformed |-> {}, claimCancelled |-> {},
              ownerToOperators |-> [o \in Addresses |-> [p \in Accounts |-> FALSE]]]
  /\ deployment = ValueLedger

ApproveValue ==
  \E sender \in Accounts, spender \in Accounts, value \in ApprovedValues :
    LET r == Token_approve(deployment, sender, spender, value)
    IN  /\ CommitOrders("approveValue", sender, FeeToken, r)
        /\ UNCHANGED <<ledgerVars, now, other, assetVars>>

NextValue == ApproveValue

SpecValue == InitValue /\ [][NextValue]_vars

\* ------------------------------------------------------------------ claims
\* A signature isValidSignature accepts for request c.
AcceptedSignatures(c) ==
  {s \in SignaturesFor(c) : isValidSignature(c.owner, Digest(c), s).value}

\* C1 - Replay safety: once setApprovalForAllWithSignature has succeeded
\* for a digest, every later call with the same arguments and a signature
\* the verifier accepts fails with CLAIM_PERFORMED and changes no state.
\* First conjunct: the call right after a success; second: any later state.
C1_ReplaySafety ==
  \A c \in ClaimArgs, sender \in Accounts :
    \A s \in AcceptedSignatures(c) :
      LET first == CallSet(State, sender, c, s)
      IN  /\ first.result = OK =>
               /\ Digest(c) \in first.st.claimPerformed
               /\ \A again \in Accounts :
                    LET replay == CallSet(first.st, again, c, s)
                    IN  /\ replay.result = CLAIM_PERFORMED
                        /\ replay.st = first.st
                        /\ replay.events = <<>>
          /\ Digest(c) \in claimPerformed =>
               /\ first.result = CLAIM_PERFORMED
               /\ first.st = State

C1_Witness ==
  /\ last.op = "setApprovalForAllWithSignature"
  /\ last.result = CLAIM_PERFORMED
  /\ ~last.changed

\* C2 - Performing a cancelled claim fails: once the cancel has succeeded
\* for a digest, every setApprovalForAllWithSignature call for it, with any
\* signature and sender, fails with CLAIM_CANCELED; the digest is not
\* marked performed and ownerToOperators is not changed by the call.
C2_CancelledNeverPerformed ==
  \A c \in ClaimArgs :
    /\ \A canceller \in Accounts :
         LET cancel == CallCancel(State, canceller, c)
         IN  cancel.result = OK =>
               \A sender \in Accounts :
                 \A s \in SignaturesFor(c) :
                   LET after == CallSet(cancel.st, sender, c, s)
                   IN  /\ after.result = CLAIM_CANCELED
                       /\ Digest(c) \notin after.st.claimPerformed
                       /\ after.st.ownerToOperators = ownerToOperators
    /\ Digest(c) \in claimCancelled =>
         \A sender \in Accounts :
           \A s \in SignaturesFor(c) :
             LET later == CallSet(State, sender, c, s)
             IN  /\ later.result = CLAIM_CANCELED
                 /\ Digest(c) \notin later.st.claimPerformed
                 /\ later.st.ownerToOperators = ownerToOperators

C2_Witness ==
  /\ last.op = "setApprovalForAllWithSignature"
  /\ last.result = CLAIM_CANCELED
  /\ claimCancelled # {}
  /\ claimPerformed = {}

\* C3 - Cancelling a performed claim fails: once the perform has succeeded
\* for a digest, every cancel call for it fails (CLAIM_PERFORMED for the
\* owner, NOT_OWNER for anybody else), claimCancelled stays false for it
\* and the operator approvals are left as they are.
C3_PerformedNeverCancelled ==
  \A c \in ClaimArgs :
    /\ \A sender \in Accounts :
         \A s \in SignaturesFor(c) :
           LET perform == CallSet(State, sender, c, s)
           IN  perform.result = OK =>
                 \A canceller \in Accounts :
                   LET after == CallCancel(perform.st, canceller, c)
                   IN  /\ after.result =
                            (IF canceller = c.owner THEN CLAIM_PERFORMED ELSE NOT_OWNER)
                       /\ Digest(c) \notin after.st.claimCancelled
                       /\ after.st.ownerToOperators = perform.st.ownerToOperators
                       /\ after.st.ownerToOperators[c.owner][c.operator] = c.approved
    /\ Digest(c) \in claimPerformed =>
         \A canceller \in Accounts :
           LET later == CallCancel(State, canceller, c)
           IN  /\ later.result =
                    (IF canceller = c.owner THEN CLAIM_PERFORMED ELSE NOT_OWNER)
               /\ Digest(c) \notin later.st.claimCancelled
               /\ later.st.ownerToOperators = ownerToOperators

C3_Witness ==
  /\ last.op = "cancelSetApprovalForAllWithSignature"
  /\ last.result = CLAIM_PERFORMED
  /\ claimCancelled = {}

\* C4 - No digest is both performed and cancelled.
C4_NotPerformedAndCancelled ==
  \A d \in claimPerformed \cup claimCancelled :
    ~(d \in claimPerformed /\ d \in claimCancelled)

\* A digest is terminal and the other transition has been tried on it.
C4_Witness ==
  /\ claimPerformed \cup claimCancelled # {}
  /\ last.result \in {CLAIM_PERFORMED, CLAIM_CANCELED}
  /\ last.sender \in Owners
\* --- the cancel / perform race
\* The races of C5: a request whose owner can send transactions, not yet
\* performed or cancelled, unexpired, with the owner's own signature.
RaceRequests ==
  {c \in ClaimArgs : /\ c.owner \in Accounts
                     /\ Digest(c) \notin claimPerformed \cup claimCancelled
                     /\ c.expiration >= now}

OwnerSignatures(c) == {Sign(c.owner, kind, Digest(c)) : kind \in SignatureKind}

PerformStep(sender, c, s) ==
  Commit("setApprovalForAllWithSignature", sender, CallSet(State, sender, c, s))

CancelStep(sender, c) ==
  Commit("cancelSetApprovalForAllWithSignature", sender, CallCancel(State, sender, c))

\* The address ecrecover yields for signature s checked against request c.
Recovered(c, s) == ecrecover(SignedMessage(s.kind, Digest(c)), s)

\* C6 - Signature authorization: the call succeeds only with a signature
\* made by _owner over the digest, and for every _owner, the zero account
\* included, a signature that recovers no valid account is rejected
\* (INVALID_SIGNATURE, or CLAIM_CANCELED when the digest is cancelled,
\* which the code checks first) and changes no operator approval.
C6_SignatureAuthorization ==
  [][\A c \in ClaimArgs, sender \in Accounts :
       \A s \in SignaturesFor(c) :
         PerformStep(sender, c, s) =>
           /\ last'.result = OK =>
                c.owner \in Accounts /\ s = Sign(c.owner, s.kind, Digest(c))
           /\ Recovered(c, s) = ZeroAddress =>
                /\ last'.result \in {INVALID_SIGNATURE, CLAIM_CANCELED}
                /\ ownerToOperators' = ownerToOperators]_vars

C9_SecondCancelFails ==
  [][\A c \in ClaimArgs :
       (Digest(c) \in claimCancelled /\ CancelStep(c.owner, c)) =>
         last'.result # OK]_vars

\* C9 as amended - a second cancel by the owner succeeds again and changes
\* nothing (the digest stays cancelled); a second perform after a
\* successful perform fails with CLAIM_PERFORMED.
C9_SecondCancelIsNoOp ==
  \A c \in ClaimArgs :
    /\ LET cancel1 == CallCancel(State, c.owner, c)
           cancel2 == CallCancel(cancel1.st, c.owner, c)
       IN  (c.owner \in Accounts /\ cancel1.result = OK) =>
             /\ cancel2.result = OK
             /\ cancel2.st = cancel1.st
             /\ Digest(c) \in cancel2.st.claimCancelled
    /\ c.owner \in Accounts =>
         \A sender \in Accounts :
           LET s == Sign(c.owner, eth_sign, Digest(c))
               perform1 == CallSet(State, sender, c, s)
               perform2 == CallSet(perform1.st, sender, c, s)
           IN  perform1.result = OK =>
                 perform2.result = CLAIM_PERFORMED /\ perform2.st = perform1.st

\* The owner cancelled a digest that was cancelled already.
C9_Witness ==
  /\ last.op = "cancelSetApprovalForAllWithSignature"
  /\ last.result = OK
  /\ ~last.changed
  /\ claimCancelled # {}

\* C10 - Only the claim's owner can cancel it: a cancel sent by any other
\* account fails with NOT_OWNER and leaves claimCancelled and
\* claimPerformed as they are; a digest becomes cancelled only in a
\* transaction sent by the owner named in it.
C10_OnlyOwnerCancels ==
  /\ [](\A c \in ClaimArgs :
          \A sender \in Accounts \ {c.owner} :
            LET r == CallCancel(State, sender, c)
            IN  /\ r.result = NOT_OWNER
                /\ r.st.claimCancelled = claimCancelled
                /\ r.st.claimPerformed = claimPerformed)
  /\ [][\A d \in claimCancelled' \ claimCancelled :
          /\ last'.op = "cancelSetApprovalForAllWithSignature"
          /\ last'.sender = d[2]]_vars

\* A third party tried to cancel a request that was still open.
C10_Witness ==
  /\ last.op = "cancelSetApprovalForAllWithSignature"
  /\ last.result = NOT_OWNER
  /\ last.sender \notin Owners
  /\ claimCancelled = {}

VerificationErrors ==
  {CLAIM_CANCELED, INVALID_SIGNATURE, INVALID_SIGNATURE_KIND, CLAIM_PERFORMED, CLAIM_EXPIRED}

VerificationFails(c, s) ==
  \/ Digest(c) \in claimCancelled
  \/ ~isValidSignature(c.owner, Digest(c), s).value
  \/ Digest(c) \in claimPerformed
  \/ c.expiration < now

\* C13 - Zero state change on verification failure: a call that fails a
\* verification step (cancelled digest, signature not accepted, digest
\* already performed, expired) ends with one of the verification errors,
\* leaves claimPerformed, claimCancelled, ownerToOperators and the fee-token
\* balances exactly as they were and produces no event.
C13_VerificationFailureChangesNothing ==
  \A c \in ClaimArgs :
    \A s \in SignaturesFor(c) :
      VerificationFails(c, s) =>
        \A sender \in Accounts :
          LET r == CallSet(State, sender, c, s)
          IN  /\ r.result \in VerificationErrors
              /\ r.st = State
              /\ r.events = <<>>

\* A rejected call whose fee the owner could have paid.
C13_Witness ==
  /\ last.op = "setApprovalForAllWithSignature"
  /\ last.result = INVALID_SIGNATURE
  /\ ~last.changed
  /\ balances["alice"] > 0

\* The arguments a digest was computed from.
ArgsOf(d) ==
  [owner |-> d[2], operator |-> d[3], approved |-> d[4], feeToken |-> d[5],
   feeValue |-> d[6], feeRecipient |-> d[7], seed |-> d[8], expiration |-> d[9]]

\* C14 - Effect of a successful claim: a successful
\* setApprovalForAllWithSignature for (owner S, operator O, flag a) marks
\* exactly its digest performed, makes isApprovedForAll(S, O) equal a,
\* changes no other owner's or operator's approval entry and produces
\* exactly one event, ApprovalForAll(S, O, a).
C14_SuccessfulClaimEffect ==
  [][(last'.op = "setApprovalForAllWithSignature" /\ last'.result = OK /\ now' = now) =>
       \E d \in claimPerformed' :
         LET c == ArgsOf(d)
         IN  /\ d \notin claimPerformed
             /\ claimPerformed' = claimPerformed \cup {d}
             /\ isApprovedForAll(State', c.owner, c.operator) = c.approved
             /\ \A o \in Addresses, p \in Accounts :
                  <<o, p>> # <<c.owner, c.operator>> =>
                    ownerToOperators'[o][p] = ownerToOperators[o][p]
             /\ \A s \in SignaturesFor(c) :
                  PerformStep(last'.sender, c, s) =>
                    CallSet(State, last'.sender, c, s).events
                      = <<ApprovalForAll(c.owner, c.operator, c.approved)>>]_vars

\* A claim signed by an account has succeeded and its operator is approved.
C14_Witness ==
  /\ last.op = "setApprovalForAllWithSignature"
  /\ last.result = OK
  /\ \E d \in claimPerformed :
       /\ d[2] \in Accounts
       /\ d[4] = TRUE
       /\ isApprovedForAll(State, d[2], d[3])

\* --- instance binding, seeds, signature kinds (two deployments)
\* The terminal digests of a deployment.
Terminal(st) == st.claimPerformed \cup st.claimCancelled

\* C15 - Instance binding: the first field of a digest is the address of
\* the deployment that computes it, so the digests of one request on two
\* deployments differ; the owner's signature for the request on one
\* deployment is rejected by the other (INVALID_SIGNATURE, or CLAIM_CANCELED
\* when the other has its own digest cancelled) without any state change;
\* and a transaction on one deployment leaves the claimPerformed and
\* claimCancelled of the other as they are.
C15_InstanceBinding ==
  /\ [](\A c \in BindingArgs, a \in Instances, b \in Instances :
          a # b =>
            /\ DigestOn(a, c)[1] = a
            /\ DigestOn(a, c) # DigestOn(b, c)
            /\ \A d \in Terminal(StateOf(a)) : d[1] = a
            /\ \A sender \in Accounts, kind \in SignatureKind :
                 LET s == Sign(c.owner, kind, DigestOn(a, c))
                     onB == CallSet(StateOf(b), sender, c, s)
                 IN  /\ isValidSignature(c.owner, DigestOn(a, c), s).value
                     /\ onB.result \in {INVALID_SIGNATURE, CLAIM_CANCELED}
                     /\ onB.result = CLAIM_CANCELED =>
                          DigestOn(b, c) \in StateOf(b).claimCancelled
                     /\ onB.st = StateOf(b))
  /\ [][/\ last'.this = Self /\ last' # last => other' = other
        /\ last'.this = Other /\ last' # last =>
             UNCHANGED <<claimPerformed, claimCancelled, ownerToOperators>>]_vars

\* A signature made for the first deployment was submitted to the second
\* after the request had been performed on the first.
C15_Witness ==
  /\ last.op = "setApprovalForAllWithSignature"
  /\ last.this = Other
  /\ last.result = INVALID_SIGNATURE
  /\ claimPerformed # {}
  /\ other.claimPerformed = {}

\* Two requests that are identical except for their seed.
SeedSiblings ==
  {p \in BindingArgs \X BindingArgs :
     p[1].seed # p[2].seed /\ [p[1] EXCEPT !.seed = p[2].seed] = p[2]}

Performed(st, d) == d \in st.claimPerformed
Cancelled(st, d) == d \in st.claimCancelled
Unclaimed(st, d) == d \notin Terminal(st)

\* C16 - Seed independence: requests that differ only in their seed have
\* different digests; performing or cancelling one leaves the state of the
\* other's digest as it was, the signature of one is not accepted for the
\* other, and while the other is Unclaimed it can still be performed with
\* its own signature.
C16_SeedIndependence ==
  \A this \in Instances, p \in SeedSiblings, sender \in Accounts :
    LET st == StateOf(this)
        d1 == DigestOn(this, p[1])
        d2 == DigestOn(this, p[2])
        s1 == Sign(p[1].owner, eth_sign, d1)
        s2 == Sign(p[2].owner, eth_sign, d2)
        perform1 == CallSet(st, sender, p[1], s1)
        cancel1 == CallCancel(st, sender, p[1])
    IN  /\ d1 # d2
        /\ CallSet(st, sender, p[2], s1).result \in {INVALID_SIGNATURE, CLAIM_CANCELED}
        /\ \A r \in {perform1, cancel1} :
             /\ Performed(r.st, d2) <=> Performed(st, d2)
             /\ Cancelled(r.st, d2) <=> Cancelled(st, d2)
             /\ (r.result = OK /\ Unclaimed(st, d2)) =>
                  /\ Unclaimed(r.st, d2)
                  /\ CallSet(r.st, sender, p[2], s2).result = OK

\* One seed's request is cancelled and the other's has been performed
\* after it on the same deployment.
C16_Witness ==
  /\ last.op = "setApprovalForAllWithSignature"
  /\ last.result = OK
  /\ last.this = Self
  /\ Cardinality(claimPerformed) = 1
  /\ Cardinality(claimCancelled) = 1

\* A step that is the transaction setApprovalForAllWithSignature(c, s) sent
\* to deployment this.
PerformStepOn(this, sender, c, s) ==
  CommitOn(this, "setApprovalForAllWithSignature", sender, CallSet(StateOf(this), sender, c, s))

HoldsBit(mask, bit) == (mask \div bit) % 2 = 1

AbilityBits ==
  {ABILITY_MANAGE_ABILITIES, ABILITY_ALLOW_MANAGE_ABILITIES, ABILITY_CREATE_ASSET,
   ABILITY_REVOKE_ASSET, ABILITY_TOGGLE_TRANSFERS, ABILITY_UPDATE_ASSET_URI_INTEGRITY_DIGEST,
   ABILITY_UPDATE_URI, ABILITY_ALLOW_CREATE_ASSET, ABILITY_ALLOW_UPDATE_ASSET}

\* The outcome r of a mutation sent by a caller with the given mask is
\* gated by the ability bit.
GatedBy(r, st, mask, bit) ==
  /\ r.result = OK => HoldsBit(mask, bit)
  /\ ~HoldsBit(mask, bit) => (r.result = NOT_AUTHORIZED /\ r.st = st /\ r.events = <<>>)

\* C18 - Direct mutations are gated by their own ability bit: create
\* succeeds only for a caller holding CREATE_ASSET (16), revoke only with
\* REVOKE_ASSET (32), setPause only with TOGGLE_TRANSFERS (64),
\* updateTokenURIIntegrityDigest only with UPDATE_ASSET (128), setUri only
\* with UPDATE_URI_BASE (256); a caller without the bit gets a failure and
\* the ledger state is unchanged.
C18_DirectMutationsGated ==
  \A sender \in Accounts :
    LET st == LedgerState
        mask == addressToAbility[sender]
    IN  /\ \A to \in Receivers, id \in TokenIds, digest \in IntegrityDigests :
             GatedBy(create(st, sender, to, id, digest), st, mask, 16)
        /\ \A id \in TokenIds : GatedBy(revoke(st, sender, id), st, mask, 32)
        /\ \A paused \in BOOLEAN : GatedBy(setPause(st, sender, paused), st, mask, 64)
        /\ \A id \in TokenIds, digest \in IntegrityDigests :
             GatedBy(updateTokenURIIntegrityDigest(st, sender, id, digest), st, mask, 128)
        /\ \A u \in Uris : GatedBy(setUri(st, sender, u[1], u[2]), st, mask, 256)

\* A holder of REVOKE_ASSET has revoked a token.
C18_Witness ==
  /\ last.op = "revoke"
  /\ last.result = OK
  /\ last.changed
  /\ HoldsBit(addressToAbility[last.sender], 32)
  /\ ~HoldsBit(addressToAbility[last.sender], 16)

\* C19 - Order-scoped abilities do not authorize direct calls: for an
\* account holding ALLOW_CREATE_ASSET (512) but not CREATE_ASSET (16) every
\* direct create fails and changes nothing, and likewise every direct
\* updateTokenURIIntegrityDigest for an account holding
\* ALLOW_UPDATE_ASSET_IMPRINT (1024) but not UPDATE_ASSET (128); a token
\* comes to exist, or a digest to change, by a direct call only when the
\* caller holds the general ability.
C19_OrderScopedNotDirect ==
  /\ [](\A sender \in Accounts :
          LET st == LedgerState
              mask == addressToAbility[sender]
          IN  /\ (HoldsBit(mask, 512) /\ ~HoldsBit(mask, 16)) =>
                   \A to \in Receivers, id \in TokenIds, digest \in IntegrityDigests :
                     LET r == create(st, sender, to, id, digest)
                     IN  r.result = NOT_AUTHORIZED /\ r.st = st
              /\ (HoldsBit(mask, 1024) /\ ~HoldsBit(mask, 128)) =>
                   \A id \in TokenIds, digest \in IntegrityDigests :
                     LET r == updateTokenURIIntegrityDigest(st, sender, id, digest)
                     IN  r.result = NOT_AUTHORIZED /\ r.st = st)
  /\ [][/\ (last'.op = "create" /\ idToOwner' # idToOwner) =>
             HoldsBit(addressToAbility[last'.sender], 16)
        /\ (last'.op = "updateTokenURIIntegrityDigest"
              /\ idToIntegrityDigest' # idToIntegrityDigest) =>
             HoldsBit(addressToAbility[last'.sender], 128)]_vars

\* A holder of ALLOW_CREATE_ASSET alone called create and was refused.
C19_Witness ==
  /\ last.op = "create"
  /\ last.result = NOT_AUTHORIZED
  /\ addressToAbility[last.sender] = 512

\* The masks after the manager grants G to the target and then revokes G.
GrantThenRevoke(target, G) ==
  LET st == LedgerState
      granted == grantAbilities(st, Deployer, target, G)
      revoked == revokeAbilities(granted.st, Deployer, target, G, TRUE)
  IN  [ok |-> granted.result = OK /\ revoked.result = OK,
       before |-> st.addressToAbility,
       granted |-> granted.st.addressToAbility,
       after |-> revoked.st.addressToAbility]

\* C20 as claimed - granting G and then revoking G returns the account's
\* mask to its prior value.
C20_GrantRevokeRestoresMask ==
  \A target \in GrantTargets, G \in GrantMasks :
    LET gr == GrantThenRevoke(target, G)
    IN  gr.ok => gr.after[target] = gr.before[target]

\* C20 as amended - granting G and then revoking G leaves the account with
\* its prior mask M minus the bits of G (M AND NOT G), which is M exactly
\* when M and G have no bit in common; every ability bit not in G has the
\* same value before, between and after, and no other account's mask
\* changes.
C20_GrantRevokeClearsGranted ==
  \A target \in GrantTargets, G \in GrantMasks :
    LET gr == GrantThenRevoke(target, G)
        M == gr.before[target]
    IN  /\ gr.ok
        /\ \A b \in AbilityBits :
             /\ HoldsBit(gr.granted[target], b) <=> (HoldsBit(M, b) \/ HoldsBit(G, b))
             /\ HoldsBit(gr.after[target], b) <=> (HoldsBit(M, b) /\ ~HoldsBit(G, b))
             /\ ~HoldsBit(G, b) =>
                  /\ HoldsBit(gr.granted[target], b) <=> HoldsBit(M, b)
                  /\ HoldsBit(gr.after[target], b) <=> HoldsBit(M, b)
        /\ gr.after[target] = M <=> (\A b \in AbilityBits : ~(HoldsBit(M, b) /\ HoldsBit(G, b)))
        /\ \A a \in Addresses \ {target} : gr.after[a] = gr.before[a]

\* An account that held two abilities had one of them revoked.
C20_Witness ==
  /\ last.op = "revokeAbilities"
  /\ last.result = OK
  /\ last.changed
  /\ \E a \in GrantTargets : BitCount(addressToAbility[a]) = 1

\* --- batched orders
\* The call that the proxy of the action's kind makes on the ledger.
AdapterCall(st, action) ==
  CASE action.kind = CREATE_ASSET ->
         create(st, XcertCreateProxy, action.receiverId, action.id, action.imprint)
    [] action.kind = TRANSFER_ASSET ->
         safeTransferFrom(st, NFTokenSafeTransferProxy, action.senderId, action.receiverId,
                          action.id)
    [] action.kind = TRANSFER_VALUE ->
         LET moved == transferFrom(st.balances, action.senderId, action.receiverId,
                                   action.value)
         IN  IF moved.ok
               THEN [result |-> OK, st |-> [st EXCEPT !.balances = moved.balances],
                     events |-> <<>>]
               ELSE Revert(st, FEE_TRANSFER_FAILED)
    [] action.kind = SET_ABILITIES ->
         setAbilities(st, AbilitableManageProxy, action.receiverId, action.abilities)
    [] action.kind = DESTROY_ASSET -> destroy(st, XcertBurnProxy, action.id)

\* The gateway's call of the proxy, or the proxy's call of the ledger, fails.
ProxyOrLedgerCallFails(st, action) ==
  \/ ~HoldsBit(st.proxyToAbility[ProxyOf(action.kind)][ActionsGateway], 16)
  \/ AdapterCall(st, action).result # OK

\* Some action from the i-th on fails when the actions before it succeeded.
RECURSIVE SomeCallFails(_, _, _)
SomeCallFails(st, actions, i) ==
  IF i > Len(actions) THEN FALSE
  ELSE \/ ProxyOrLedgerCallFails(st, actions[i])
       \/ SomeCallFails(AdapterCall(st, actions[i]).st, actions, i + 1)

ScenarioB ==
  ActionsOrder(<<ActionCreateAsset(Self, "alice", "alice", 1, "d1"),
                 ActionTransferValue(FeeToken, "bob", "alice", 1)>>)

\* C12 - Atomicity of batched orders: for every order with at least 2
\* actions in which some action's proxy or ledger call fails, perform
\* fails, the state of every ledger (asset ledger, value ledger, abilities)
\* after it equals the state before it and the order's claim is not marked
\* performed; for [CreateAsset(L, id), TransferValue(V, amount)] with a
\* failing value transfer, the asset does not exist in L afterwards.
C12_OrderAtomicity ==
  /\ \A order \in Orders, signed \in BOOLEAN :
       LET st == deployment
           r == performOrder(st, Relayer, order, IF signed THEN order.signersIds ELSE {})
       IN  (Len(order.actions) >= 2 /\ SomeCallFails(st, order.actions, 1)) =>
             /\ r.result # OK
             /\ r.st = st
             /\ r.events = <<>>
             /\ r.st.orderPerformed = st.orderPerformed
  /\ LET st == deployment
         r == performOrder(st, Relayer, ScenarioB, ScenarioB.signersIds)
     IN  (st.idToOwner[1] = ZeroAddress /\ st.balances["bob"] < 1) =>
           /\ r.st.idToOwner[1] = ZeroAddress
           /\ orderClaim(ActionsGateway, ScenarioB) \notin r.st.orderPerformed

\* An order was refused because its value transfer failed, in a state
\* where the creation that precedes the transfer in Scenario B succeeds on
\* its own and the transfer after it fails.
C12_Witness ==
  /\ last.op = "perform"
  /\ last.result = FEE_TRANSFER_FAILED
  /\ ~last.changed
  /\ deployment.idToOwner[1] = ZeroAddress
  /\ ~ProxyOrLedgerCallFails(deployment, ScenarioB.actions[1])
  /\ ProxyOrLedgerCallFails(AdapterCall(deployment, ScenarioB.actions[1]).st, ScenarioB.actions[2])

\* --- self-revocation, ability lists
\* Every operation that requires MANAGE_ABILITIES fails for the sender.
FailsAllManaging(st, sender) ==
  \A target \in Accounts, abilities \in RevokedMasks :
    /\ grantAbilities(st, sender, target, abilities).result = NOT_AUTHORIZED
    /\ setAbilities(st, sender, target, abilities).result = NOT_AUTHORIZED
    /\ \A allow \in BOOLEAN :
         revokeAbilities(st, sender, target, abilities, allow).result = NOT_AUTHORIZED

\* C21 - Self-revocation guard: when an account A that holds
\* MANAGE_ABILITIES revokes from itself a bitmask that includes
\* MANAGE_ABILITIES, the call fails and changes nothing if allowSuperRevoke
\* is false and succeeds if it is true; after the successful call A no
\* longer holds MANAGE_ABILITIES and every operation of A that requires it
\* fails.
C21_SelfRevocationGuard ==
  \A A \in Accounts, abilities \in RevokedMasks :
    LET st == LedgerState
        refused == revokeAbilities(st, A, A, abilities, FALSE)
        revoked == revokeAbilities(st, A, A, abilities, TRUE)
    IN  (HoldsBit(st.addressToAbility[A], 1) /\ HoldsBit(abilities, 1)) =>
          /\ refused.result = CANNOT_REVOKE_OWN_SUPER_ABILITY
          /\ refused.st = st
          /\ revoked.result = OK
          /\ ~HoldsBit(revoked.st.addressToAbility[A], 1)
          /\ \A other_ \in Accounts \ {A} :
               revoked.st.addressToAbility[other_] = st.addressToAbility[other_]
          /\ FailsAllManaging(revoked.st, A)

\* The deployer gave up MANAGE_ABILITIES with allowSuperRevoke and is now
\* refused.
C21_Witness ==
  /\ last.op = "revokeAbilities"
  /\ last.sender = Deployer
  /\ last.result = OK
  /\ last.changed
  /\ ~HoldsBit(addressToAbility[Deployer], 1)
  /\ FailsAllManaging(LedgerState, Deployer)

\* The bitwise OR of the listed ability bits.
RECURSIVE OrOf(_)
OrOf(abilities) ==
  IF abilities = <<>> THEN 0
  ELSE BitOr(OrOf(SubSeq(abilities, 1, Len(abilities) - 1)), abilities[Len(abilities)])

\* C22 - Ability lists are OR-combined into the bitfield: for every list
\* of abilities (in any order, the same ability more than once included)
\* getBitfieldFromAbilities gives the bitwise OR of the listed bits, and
\* the mask that AssetLedger.grantAbilities / revokeAbilities send is that
\* OR: a grant adds exactly the listed abilities to the account's mask, a
\* revoke removes exactly those; {CREATE_ASSET, UPDATE_ASSET} gives 144,
\* which has UPDATE_ASSET and does not have REVOKE_ASSET.
C22_ListsAreOrCombined ==
  /\ getBitfieldFromAbilities(<<16, 128>>) = toHexString(144)
  /\ hasAbility(bitAbilities(<<16, 128>>), 128)
  /\ ~hasAbility(bitAbilities(<<16, 128>>), 32)
  /\ \A abilities \in AbilityLists :
       /\ getBitfieldFromAbilities(abilities) = toHexString(OrOf(abilities))
       /\ \A sender \in Accounts, accountId \in Accounts :
            LET st == LedgerState
                granted == AssetLedger_grantAbilities(st, sender, accountId, abilities)
                revoked == AssetLedger_revokeAbilities(st, sender, accountId, abilities)
            IN  /\ granted.result = OK =>
                     granted.st.addressToAbility[accountId] =
                       BitOr(st.addressToAbility[accountId], OrOf(abilities))
                /\ revoked.result = OK =>
                     revoked.st.addressToAbility[accountId] =
                       BitAndNot(st.addressToAbility[accountId], OrOf(abilities))

\* ------------------------------------------------ optional capabilities
\* The optional operations of a ledger, their capability and the ability their
\* modifier asks of the caller (destroy has no modifier).
Missing(capability) == ~(capability \in supportedInterfaces)

Refused(r, error) == r.result = error /\ r.st = LedgerState /\ r.events = <<>>

\* C23 as stated: on a ledger that does not declare the capability, revoke,
\* setPause, updateTokenURIIntegrityDigest and destroy fail with
\* CAPABILITY_NOT_SUPPORTED for every caller and change no state.
C23_RefusedForEveryCaller ==
  \A sender \in Accounts, id \in TokenIds :
    /\ Missing(REVOKABLE) => Refused(revoke(LedgerState, sender, id), CAPABILITY_NOT_SUPPORTED)
    /\ Missing(PAUSABLE) =>
         \A paused \in BOOLEAN :
           Refused(setPause(LedgerState, sender, paused), CAPABILITY_NOT_SUPPORTED)
    /\ Missing(MUTABLE) =>
         \A digest \in IntegrityDigests :
           Refused(updateTokenURIIntegrityDigest(LedgerState, sender, id, digest),
                   CAPABILITY_NOT_SUPPORTED)
    /\ Missing(BURNABLE) => Refused(destroy(LedgerState, sender, id), CAPABILITY_NOT_SUPPORTED)

RefusedByAbilityThenCapability(r, sender, ability) ==
  Refused(r, IF hasAbilities(LedgerState, sender, ability)
               THEN CAPABILITY_NOT_SUPPORTED ELSE NOT_AUTHORIZED)

\* C23 (amended): on a ledger that does not declare the capability, revoke,
\* setPause, updateTokenURIIntegrityDigest and destroy fail for every caller
\* and change no state; the failure is CAPABILITY_NOT_SUPPORTED for destroy
\* and for callers holding the required ability, and NOT_AUTHORIZED for
\* callers of the other three that lack it.
C23_CapabilityCheckedBeforeOperation ==
  \A sender \in Accounts, id \in TokenIds :
    /\ Missing(REVOKABLE) =>
         RefusedByAbilityThenCapability(revoke(LedgerState, sender, id), sender,
                                        ABILITY_REVOKE_ASSET)
    /\ Missing(PAUSABLE) =>
         \A paused \in BOOLEAN :
           RefusedByAbilityThenCapability(setPause(LedgerState, sender, paused), sender,
                                          ABILITY_TOGGLE_TRANSFERS)
    /\ Missing(MUTABLE) =>
         \A digest \in IntegrityDigests :
           RefusedByAbilityThenCapability(
             updateTokenURIIntegrityDigest(LedgerState, sender, id, digest), sender,
             ABILITY_UPDATE_ASSET_URI_INTEGRITY_DIGEST)
    /\ Missing(BURNABLE) => Refused(destroy(LedgerState, sender, id), CAPABILITY_NOT_SUPPORTED)

\* A caller holding ABILITY_REVOKE_ASSET has just been refused the revocation
\* of an existing token on a ledger that is not revokable.
C23_Witness ==
  /\ Missing(REVOKABLE)
  /\ last.op = "revoke"
  /\ last.result = CAPABILITY_NOT_SUPPORTED
  /\ hasAbilities(LedgerState, last.sender, ABILITY_REVOKE_ASSET)
  /\ \E id \in TokenIds : idToOwner[id] # ZeroAddress

\* C25: in every reachable state of a ledger, isPaused implies that the
\* ledger supports the PAUSABLE capability.
C25_PausedOnlyIfPausable == isPaused => PAUSABLE \in supportedInterfaces

\* A holder of ABILITY_TOGGLE_TRANSFERS has just tried to pause a ledger that
\* is not pausable; and a pausable ledger has just been paused.
C25_Witness ==
  /\ last.op = "setPause"
  /\ hasAbilities(LedgerState, last.sender, ABILITY_TOGGLE_TRANSFERS)
  /\ last.result = CAPABILITY_NOT_SUPPORTED
  /\ ~isPaused

\* ------------------------------------------------- pause and transfers
Rejected(r, error) == r.result = error /\ r.st = deployment /\ r.events = <<>>

RefusesTokens(to) ==
  /\ to \in deployment.contracts
  /\ \/ ~(to \in DOMAIN deployment.onERC721Received)
     \/ deployment.onERC721Received[to] # MAGIC_ON_ERC721_RECEIVED

MayTransfer(sender, from, to, id) ==
  /\ deployment.idToOwner[id] = from
  /\ to # ZeroAddress
  /\ \/ sender = from
     \/ deployment.idToApproval[id] = sender
     \/ deployment.ownerToOperators[from][sender]

\* C30: transferFrom and safeTransferFrom(from, to, id) change ownership only
\* if from is the current owner of id, to is not the zero address and the
\* caller is the owner, the address approved for id or an operator of the
\* owner; in every other case they fail and owners, approvals and counts are
\* unchanged.
C30_TransferAuthorization ==
  \A sender \in TokenAddresses, from \in TransferFroms, to \in TransferTos, id \in TokenIds :
    LET moved == Xcert_transferFrom(deployment, sender, from, to, id)
        sent == safeTransferFrom(deployment, sender, from, to, id)
    IN  ~MayTransfer(sender, from, to, id) =>
          /\ moved.result # OK /\ moved.st = deployment
          /\ sent.result # OK /\ sent.st = deployment

\* An account that is neither owner, approved nor operator has just been
\* refused the transfer of an existing token; the ledger is not paused.
C30_Witness ==
  /\ ~deployment.isPaused
  /\ last.op \in {"transferFrom", "safeTransferFrom"}
  /\ last.result = NOT_OWNER_APPROWED_OR_OPERATOR
  /\ ~last.changed
  /\ \E id \in TokenIds : deployment.idToOwner[id] \in Accounts \ {last.sender}

\* ------------------------------------------------------ proxy callers
Failed(r) == r.result # OK /\ r.st = deployment /\ r.events = <<>>

\* C26: NFTokenSafeTransferProxy.execute, XcertBurnProxy.destroy and
\* AbilitableManageProxy.set succeed only if the caller holds the execute
\* ability (16) on that proxy at the time of the call; any other caller,
\* never granted or revoked, gets a failure and nothing changes.
C26_ProxiesExecuteForAuthorizedOnly ==
  \A sender \in ProxyAddresses, id \in TokenIds :
    /\ ~canExecute(deployment, NFTokenSafeTransferProxy, sender) =>
         \A from \in Accounts, to \in Accounts :
           Failed(execute(deployment, sender, Self, from, to, id))
    /\ ~canExecute(deployment, XcertBurnProxy, sender) =>
         Failed(XcertBurnProxy_destroy(deployment, sender, Self, id))
    /\ ~canExecute(deployment, AbilitableManageProxy, sender) =>
         \A to \in SetTargets, abilities \in SetMasks :
           Failed(AbilitableManageProxy_set(deployment, sender, Self, to, abilities))

\* The burn proxy is an operator of the owner of an existing token, and a
\* caller without the execute ability on the proxy has just been refused.
C26_Witness ==
  /\ last.op = "XcertBurnProxy.destroy"
  /\ last.result = NOT_AUTHORIZED
  /\ ~canExecute(deployment, XcertBurnProxy, last.sender)
  /\ \E id \in TokenIds :
       /\ deployment.idToOwner[id] # ZeroAddress
       /\ deployment.ownerToOperators[deployment.idToOwner[id]][XcertBurnProxy]

\* C27: a proxy-mediated action takes effect on a ledger only if the proxy
\* account itself holds the needed permission there: MANAGE_ABILITIES for
\* set; token owner or operator of the owner for destroy; owner, approved
\* or operator for transfer. Otherwise the call fails and nothing changes.
C27_ProxyNeedsLedgerPermission ==
  \A sender \in ProxyAddresses, id \in TokenIds :
    LET tokenOwner == deployment.idToOwner[id]
    IN  /\ ~hasAbilities(deployment, AbilitableManageProxy, ABILITY_MANAGE_ABILITIES) =>
             \A to \in SetTargets, abilities \in SetMasks :
               Failed(AbilitableManageProxy_set(deployment, sender, Self, to, abilities))
        /\ ~(\/ tokenOwner = XcertBurnProxy
             \/ deployment.ownerToOperators[tokenOwner][XcertBurnProxy]) =>
             Failed(XcertBurnProxy_destroy(deployment, sender, Self, id))
        /\ \A from \in Accounts, to \in Accounts :
             ~MayTransfer(NFTokenSafeTransferProxy, from, to, id) =>
               Failed(execute(deployment, sender, Self, from, to, id))

\* A caller holding the execute ability on the burn proxy has just been
\* refused the destruction of a token whose owner has not made the proxy
\* an operator.
C27_Witness ==
  /\ last.op = "XcertBurnProxy.destroy"
  /\ canExecute(deployment, XcertBurnProxy, last.sender)
  /\ last.result = NOT_XCERT_OWNER_OR_OPERATOR
  /\ ~last.changed
  /\ \E id \in TokenIds : deployment.idToOwner[id] \in Accounts

\* C28: while the manage proxy holds MANAGE_ABILITIES on a ledger, a set of
\* the proxy's own abilities to 0 by an authorized caller succeeds;
\* afterwards isAble(proxy, MANAGE_ABILITIES) is false on that ledger, and
\* as long as it is false every set through the proxy fails.
C28_ManageProxyRemovesItself ==
  /\ \A sender \in Accounts :
       LET removed == AbilitableManageProxy_set(deployment, sender, Self,
                                                AbilitableManageProxy, 0)
       IN  (/\ canExecute(deployment, AbilitableManageProxy, sender)
            /\ isAble(deployment, AbilitableManageProxy, ABILITY_MANAGE_ABILITIES)) =>
             /\ removed.result = OK
             /\ ~isAble(removed.st, AbilitableManageProxy, ABILITY_MANAGE_ABILITIES)
             /\ \A later \in Accounts, to \in SetTargets, abilities \in SetMasks :
                  AbilitableManageProxy_set(removed.st, later, Self, to, abilities).result # OK
  /\ ~isAble(deployment, AbilitableManageProxy, ABILITY_MANAGE_ABILITIES) =>
       \A later \in Accounts, to \in SetTargets, abilities \in SetMasks :
         Failed(AbilitableManageProxy_set(deployment, later, Self, to, abilities))

\* A set through the manage proxy has just taken the proxy's
\* MANAGE_ABILITIES away, and its caller still holds the execute ability.
C28_Witness ==
  /\ last.op = "AbilitableManageProxy.set"
  /\ last.result = OK
  /\ last.changed
  /\ canExecute(deployment, AbilitableManageProxy, last.sender)
  /\ ~isAble(deployment, AbilitableManageProxy, ABILITY_MANAGE_ABILITIES)

PendingTransferValid ==
  /\ ~deployment.isPaused
  /\ last.from # ZeroAddress
  /\ MayTransfer(last.sender, last.from, last.to, last.id)

\* C31 as stated: when the receiver is a deployed contract, at the moment
\* onERC721Received runs on it the transfer is complete: the owner of id is
\* already the receiver and the sender's count is already decremented. (If
\* the callback does not return the magic value the transfer fails with
\* ownership unchanged.)
C31_CallbackAfterTransfer ==
  (ReceiverRuns /\ PendingTransferValid) =>
    /\ deployment.idToOwner[last.id] = last.to
    /\ deployment.ownerToNFTokenCount[last.from] = 0

\* ------------------------------------------------- destroy authorization
MayDestroy(sender, id) ==
  LET tokenOwner == deployment.idToOwner[id]
  IN  tokenOwner = sender \/ deployment.ownerToOperators[tokenOwner][sender]

DestroyAuthorization ==
  \A sender \in TokenAddresses \ {ZeroAddress}, id \in TokenIds :
    LET r == destroy(deployment, sender, id)
    IN  /\ r.result = OK => (deployment.idToOwner[id] # ZeroAddress /\ MayDestroy(sender, id))
        /\ deployment.idToOwner[id] = ZeroAddress => Rejected(r, NOT_VALID_NFT)
        /\ (deployment.idToOwner[id] # ZeroAddress /\ ~MayDestroy(sender, id)) =>
             Rejected(r, NOT_XCERT_OWNER_OR_OPERATOR)

\* C32 as stated: destroy(id) removes the token only if the caller is the
\* token's owner or an operator of the owner; any other caller, the address
\* approved for the token included, gets NOT_XCERT_OWNER_OR_OPERATOR with
\* nothing changed; destroy of a non-existent id fails with NOT_VALID_NFT.
C32_DestroyByOwnerOrOperator == DestroyAuthorization

\* C32 (amended): the same, on a ledger that declares the BURNABLE
\* capability.
C32_DestroyAuthorization == BURNABLE \in deployment.supportedInterfaces => DestroyAuthorization

\* On a burnable ledger the address approved for a token, neither its owner
\* nor an operator, has just been refused its destruction.
C32_Witness ==
  /\ BURNABLE \in deployment.supportedInterfaces
  /\ last.op = "destroy"
  /\ last.result = NOT_XCERT_OWNER_OR_OPERATOR
  /\ ~last.changed
  /\ \E id \in TokenIds :
       /\ deployment.idToApproval[id] = last.sender
       /\ deployment.idToOwner[id] # ZeroAddress
       /\ ~MayDestroy(last.sender, id)

\* ------------------------------------------------- create preconditions
CreateEffect(r, to, id, digest) ==
  r.result = OK =>
    /\ r.st.idToOwner[id] = to
    /\ r.st.idToIntegrityDigest[id] = digest
    /\ r.st.ownerToNFTokenCount[to] = ownerToNFTokenCount[to] + 1

\* C33 as stated: create(to, id, digest) fails with ZERO_ADDRESS if to is
\* the zero address and with NFT_ALREADY_EXISTS if id already has an owner,
\* nothing changed; on success the owner of id is to, its stored digest is
\* digest and to's count has grown by exactly 1.
C33_CreateFailsOnArguments ==
  \A sender \in Accounts, to \in Addresses, id \in TokenIds, digest \in IntegrityDigests :
    LET r == create(LedgerState, sender, to, id, digest)
    IN  /\ to = ZeroAddress => Refused(r, ZERO_ADDRESS)
        /\ idToOwner[id] # ZeroAddress => Refused(r, NFT_ALREADY_EXISTS)
        /\ CreateEffect(r, to, id, digest)

\* C33 (amended): create(to, id, digest) sent by a holder of
\* ABILITY_CREATE_ASSET fails with ZERO_ADDRESS if to is the zero address
\* and otherwise with NFT_ALREADY_EXISTS if id already has an owner; sent by
\* anyone else it fails with NOT_AUTHORIZED; nothing changes on a failure.
\* On success the owner of id is to, its stored digest is digest and to's
\* count has grown by exactly 1.
C33_CreatePreconditions ==
  \A sender \in Accounts, to \in Addresses, id \in TokenIds, digest \in IntegrityDigests :
    LET r == create(LedgerState, sender, to, id, digest)
    IN  /\ ~hasAbilities(LedgerState, sender, ABILITY_CREATE_ASSET) =>
             Refused(r, NOT_AUTHORIZED)
        /\ hasAbilities(LedgerState, sender, ABILITY_CREATE_ASSET) =>
             /\ to = ZeroAddress => Refused(r, ZERO_ADDRESS)
             /\ (to # ZeroAddress /\ idToOwner[id] # ZeroAddress) =>
                  Refused(r, NFT_ALREADY_EXISTS)
             /\ (to # ZeroAddress /\ idToOwner[id] = ZeroAddress) => r.result = OK
        /\ CreateEffect(r, to, id, digest)

\* A holder of ABILITY_CREATE_ASSET has just been refused the creation of an
\* id that has an owner; the owner and the digest are as they were.
C33_Witness ==
  /\ last.op = "create"
  /\ last.result = NFT_ALREADY_EXISTS
  /\ ~last.changed
  /\ hasAbilities(LedgerState, last.sender, ABILITY_CREATE_ASSET)
  /\ \E id \in TokenIds : idToOwner[id] # ZeroAddress /\ idToIntegrityDigest[id] # NoDigest

\* ------------------------------------------------------ fee recipients
\* C34: when setApprovalForAllWithSignature succeeds with _feeRecipient
\* equal to the zero address, _feeValue goes from _owner to the account
\* that sent the call; with a non-zero _feeRecipient it goes to that
\* recipient; the digest is the one of _feeRecipient as passed.
C34_FeeRecipientDefaulting ==
  \A sender \in Accounts, c \in FeeArgs :
    \A signature \in SignaturesFor(c) :
      LET r == CallSet(State, sender, c, signature)
          recipient == IF c.feeRecipient = ZeroAddress THEN sender ELSE c.feeRecipient
      IN  r.result = OK =>
            /\ \A a \in Addresses :
                 r.st.balances[a] =
                   balances[a]
                     + (IF a = recipient /\ a # c.owner THEN c.feeValue ELSE 0)
                     - (IF a = c.owner /\ a # recipient THEN c.feeValue ELSE 0)
            /\ r.st.claimPerformed = claimPerformed \cup {Digest(c)}
            /\ isValidSignature(c.owner, Digest(c), signature).value

\* bob has just sent a request of alice that names no fee recipient and a
\* fee of 1: the fee is with bob, and the digest performed is the one with
\* the zero recipient.
C34_Witness ==
  /\ last.op = "setApprovalForAllWithSignature"
  /\ last.result = OK
  /\ last.sender = "bob"
  /\ balances["bob"] = 1
  /\ balances["alice"] = 0
  /\ \E c \in FeeArgs :
       /\ c.feeRecipient = ZeroAddress
       /\ c.feeValue = 1
       /\ claimPerformed = {Digest(c)}

\* ------------------------------------------------------ terminal claim states
\* C35: once claimPerformed[d] is true it stays true, and once
\* claimCancelled[d] is true it stays true, whatever operation follows; no
\* operation returns a digest to Unclaimed.
C35_TerminalStatesStable ==
  [][/\ claimPerformed \subseteq claimPerformed'
     /\ claimCancelled \subseteq claimCancelled']_vars

\* A digest is performed, time has passed, and a cancel of the owner has
\* just been refused on it.
C35_Witness ==
  /\ claimPerformed # {}
  /\ now = MaxTime
  /\ last.op = "cancelSetApprovalForAllWithSignature"
  /\ last.sender = "alice"
  /\ last.result = CLAIM_PERFORMED

\* ------------------------------------------------------ expiration boundary
\* C36: a claim whose _expiration equals the current time is not expired:
\* with a signature of the owner, an unclaimed digest and a fee the owner
\* can pay, setApprovalForAllWithSignature succeeds; it is rejected only
\* when _expiration is strictly less than the current time.
C36_ExpirationBoundary ==
  \A sender \in Accounts, c \in FeeArgs, kind \in SignatureKind :
    LET r == CallSet(State, sender, c, Sign(c.owner, kind, Digest(c)))
    IN  (/\ Digest(c) \notin claimPerformed \cup claimCancelled
         /\ balances[c.owner] >= c.feeValue)
          => /\ c.expiration = now => r.result = OK
             /\ r.result # OK <=> c.expiration < now
             /\ c.expiration < now => r.result = CLAIM_EXPIRED

\* A request that expires at time 0 has been performed at time 0.
C36_Witness ==
  /\ now = 0
  /\ last.op = "setApprovalForAllWithSignature"
  /\ last.result = OK
  /\ \E c \in FeeArgs :
       /\ c.expiration = now
       /\ claimPerformed = {Digest(c)}

\* ------------------------------------------------------ token counts
\* C37: in every reachable state, for every account a,
\* ownerToNFTokenCount[a] is the number of token ids whose owner is a,
\* across create, transfer, destroy and revoke, so the assert(count > 0)
\* of _destroy and _transferFrom never fires.
C37_TokenCountConsistency ==
  /\ \A a \in TokenAddresses \ {ZeroAddress} :
       deployment.ownerToNFTokenCount[a] =
         Cardinality({i \in TokenIds : deployment.idToOwner[i] = a})
  /\ deployment.ownerToNFTokenCount[ZeroAddress] = 0
  /\ last.result # PANIC

\* A token that was created has just been destroyed by its owner: every
\* count is back to zero.
C37_Witness ==
  /\ last.op = "destroy"
  /\ last.result = OK
  /\ last.changed
  /\ \A i \in TokenIds : deployment.idToOwner[i] = ZeroAddress
  /\ \A a \in TokenAddresses : deployment.ownerToNFTokenCount[a] = 0

\* ------------------------------------------------------ approval on transfer
\* C39: after every successful transferFrom / safeTransferFrom of id the
\* approved address of id is the zero address, so an account approved by
\* the previous owner cannot transfer the token away from the new owner.
C39_ApprovalClearedOnTransfer ==
  \A sender \in TokenAddresses, from \in TransferFroms, to \in TransferTos, id \in TokenIds :
    LET moved == Xcert_transferFrom(deployment, sender, from, to, id)
        sent == safeTransferFrom(deployment, sender, from, to, id)
        approved == deployment.idToApproval[id]
        Cleared(r) ==
          r.result = OK =>
            /\ r.st.idToApproval[id] = ZeroAddress
            /\ (approved \notin {ZeroAddress, to} /\ ~r.st.ownerToOperators[to][approved]) =>
                 \A next \in TransferTos :
                   /\ Xcert_transferFrom(r.st, approved, to, next, id).result # OK
                   /\ safeTransferFrom(r.st, approved, to, next, id).result # OK
    IN  Cleared(moved) /\ Cleared(sent)

\* The safe-transfer proxy, operator of nobody, has just moved a token of an
\* account: it was the approved address of the token, and no longer is.
C39_Witness ==
  /\ last.op = "execute"
  /\ last.result = OK
  /\ \A o \in TokenAddresses : ~deployment.ownerToOperators[o][NFTokenSafeTransferProxy]
  /\ \A i \in TokenIds :
       /\ deployment.idToOwner[i] \in Accounts
       /\ deployment.idToApproval[i] = ZeroAddress

\* ------------------------------------------------------ unowned tokens
\* C38: in every reachable state of an Xcert ledger, a token id with no
\* owner (never created, destroyed or revoked) has no approved address and
\* no stored integrity digest, so a token that is created never starts with
\* an approval or digest left over from before.
C38_NoStateForUnownedTokens ==
  \A id \in TokenIds :
    deployment.idToOwner[id] = ZeroAddress =>
      /\ deployment.idToApproval[id] = ZeroAddress
      /\ deployment.idToIntegrityDigest[id] = NoDigest

\* ------------------------------------------------------ the client's flag
\* C40: AssetLedger.revokeAbilities passes allowSuperRevoke = true to the
\* ledger exactly when the abilities list contains MANAGE_ABILITIES and
\* false otherwise, whether or not the target account is the caller.
C40_ClientSuperRevokeFlag ==
  \A sender \in Accounts, accountId \in Accounts, abilities \in AbilityLists :
    LET call == AssetLedger_revokeAbilitiesCall(sender, accountId, abilities)
        listed == ABILITY_MANAGE_ABILITIES \in {abilities[i] : i \in DOMAIN abilities}
    IN  /\ call.allowSuperRevoke = listed
        /\ AssetLedger_revokeAbilities(LedgerState, sender, accountId, abilities) =
             revokeAbilities(LedgerState, sender, accountId, bitAbilities(abilities), listed)
        /\ (/\ listed
            /\ hasAbility(bitAbilities(abilities), ABILITY_MANAGE_ABILITIES)
            /\ hasAbilities(LedgerState, sender, ABILITY_MANAGE_ABILITIES))
             => AssetLedger_revokeAbilities(LedgerState, sender, sender, abilities).result = OK

\* An account has just revoked its own MANAGE_ABILITIES through the client,
\* which it could do only with the flag set, and another account still
\* manages abilities.
C40_Witness ==
  /\ last.op = "AssetLedger.revokeAbilities"
  /\ last.result = OK
  /\ last.changed
  /\ ~hasAbilities(LedgerState, last.sender, ABILITY_MANAGE_ABILITIES)
  /\ \E a \in Accounts \ {last.sender} : hasAbilities(LedgerState, a, ABILITY_MANAGE_ABILITIES)

====
